---------------------------- MODULE Spec2Model ----------------------------
(***************************************************************************)
(* Voice employment-verification agent (src/main.py): the conversation     *)
(* state machine of the /api/chat handler with its field validators and    *)
(* fuzzy company matcher, the in-memory session store, and the lifecycle   *)
(* of the temporary audio files produced for every agent utterance.        *)
(*                                                                         *)
(* A Python str is modelled as a sequence of one-character strings, so     *)
(* that strip, lower, split, the regular expressions and difflib are       *)
(* computed character by character as the code computes them.              *)
(***************************************************************************)
EXTENDS Integers, Sequences, FiniteSets, TLC

(***************************************************************************)
(* Characters                                                              *)
(***************************************************************************)

\* The characters of the model's texts with their code points: the digits from
\* 48, the upper-case letters from 65, the lower-case letters from 97, and the
\* punctuation the validators' patterns name.
DigitChars == << "0", "1", "2", "3", "4", "5", "6", "7", "8", "9" >>

UpperChars ==
    << "A", "B", "C", "D", "E", "F", "G", "H", "I", "J", "K", "L", "M",
       "N", "O", "P", "Q", "R", "S", "T", "U", "V", "W", "X", "Y", "Z" >>

LowerChars ==
    << "a", "b", "c", "d", "e", "f", "g", "h", "i", "j", "k", "l", "m",
       "n", "o", "p", "q", "r", "s", "t", "u", "v", "w", "x", "y", "z" >>

PunctChars ==
    << << " ", 32 >>, << "%", 37 >>, << "'", 39 >>, << "+", 43 >>, << ",", 44 >>,
       << "-", 45 >>, << ".", 46 >>, << "/", 47 >>, << "?", 63 >>, << "@", 64 >>,
       << "_", 95 >>, << "^2", 178 >> >>

IndexOf(seq, c) == CHOOSE i \in 1..Len(seq) : seq[i] = c

InSeq(seq, c) == \E i \in 1..Len(seq) : seq[i] = c

\* ord(c): the code point of a character.
Ord(c) ==
    IF InSeq(DigitChars, c) THEN 47 + IndexOf(DigitChars, c)
    ELSE IF InSeq(UpperChars, c) THEN 64 + IndexOf(UpperChars, c)
    ELSE IF InSeq(LowerChars, c) THEN 96 + IndexOf(LowerChars, c)
    ELSE (CHOOSE p \in {PunctChars[i] : i \in 1..Len(PunctChars)} : p[1] = c)[2]

\* str.isdigit, str.isalpha, str.isspace on one ASCII character.
IsDigit(c) == InSeq(DigitChars, c)

IsUpper(c) == InSeq(UpperChars, c)

IsAlpha(c) == IsUpper(c) \/ InSeq(LowerChars, c)

IsSpace(c) == c = " "

\* int(c) for a digit character.
DigitVal(c) == Ord(c) - Ord("0")

\* SUPERSCRIPT TWO (U+00B2), written "^2" here: a digit for str.isdigit, no
\* decimal digit for int and for \d.
SuperscriptTwo == "^2"

\* c.isdigit() for one character.
IsDigitChar(c) == IsDigit(c) \/ c = SuperscriptTwo

(***************************************************************************)
(* str methods                                                             *)
(***************************************************************************)

\* s[i:j] with 1-based inclusive bounds; empty when i > j.
Slice(s, i, j) == IF i > j THEN << >> ELSE SubSeq(s, i, j)

\* str.lower
Lower(s) ==
    [i \in 1..Len(s) |->
        IF IsUpper(s[i]) THEN LowerChars[IndexOf(UpperChars, s[i])] ELSE s[i]]

\* str.strip: leading and trailing whitespace removed.
Strip(s) ==
    LET idx == {i \in 1..Len(s) : ~IsSpace(s[i])}
        Min(S) == CHOOSE x \in S : \A y \in S : x <= y
        Max(S) == CHOOSE x \in S : \A y \in S : x >= y
    IN  IF idx = {} THEN << >> ELSE SubSeq(s, Min(idx), Max(idx))

\* sub in s
Contains(s, sub) ==
    \E i \in 1..(Len(s) - Len(sub) + 1) : SubSeq(s, i, i + Len(sub) - 1) = sub

\* str.split(): the whitespace-separated words of s.
RECURSIVE SplitFrom(_, _)
SplitFrom(s, i) ==
    IF i > Len(s) THEN << >>
    ELSE IF IsSpace(s[i]) THEN SplitFrom(s, i + 1)
    ELSE LET ends == {j \in i..Len(s) : j = Len(s) \/ IsSpace(s[j + 1])}
             e == CHOOSE j \in ends : \A k \in ends : j <= k
         IN  << SubSeq(s, i, e) >> \o SplitFrom(s, e + 1)

Split(s) == SplitFrom(s, 1)

\* str.isdigit: non-empty and every character a digit.
IsDigitStr(s) == Len(s) > 0 /\ \A i \in 1..Len(s) : IsDigitChar(s[i])

\* int(s) raises ValueError: s, which has no sign, space or underscore, is
\* empty or has a character that is no decimal digit.
IntRaises(s) == Len(s) = 0 \/ \E i \in 1..Len(s) : ~IsDigit(s[i])

\* int(s) for a string of decimal digits.
RECURSIVE ParseInt(_)
ParseInt(s) ==
    IF Len(s) = 0 THEN 0
    ELSE 10 * ParseInt(SubSeq(s, 1, Len(s) - 1)) + DigitVal(s[Len(s)])

\* str(n) for a natural number n.
RECURSIVE IntToStr(_)
IntToStr(n) ==
    IF n < 10 THEN << DigitChars[n + 1] >>
    ELSE IntToStr(n \div 10) \o << DigitChars[(n % 10) + 1] >>

\* A formatted text (an f-string): its template, with {} for each inserted
\* value, and the inserted values as texts.
Msg(tmpl, args) == [tmpl |-> tmpl, args |-> args]

\* The length of the run of digits of s that starts at position i (0 if none).
RECURSIVE DigitRun(_, _)
DigitRun(s, i) ==
    IF i > Len(s) \/ ~IsDigit(s[i]) THEN 0 ELSE 1 + DigitRun(s, i + 1)

\* re.findall of the pattern \d+ in s: the maximal digit runs of s, left to right.
RECURSIVE FindAllDigits(_, _)
FindAllDigits(s, i) ==
    IF i > Len(s) THEN << >>
    ELSE IF ~IsDigit(s[i]) THEN FindAllDigits(s, i + 1)
    ELSE LET n == DigitRun(s, i)
         IN  << SubSeq(s, i, i + n - 1) >> \o FindAllDigits(s, i + n)

(***************************************************************************)
(* Field validators                                                        *)
(***************************************************************************)

\* meta_phrases: the directory-request phrases every validator looks for.
meta_phrases ==
    << << "l", "i", "s", "t", " ", "o", "f", " ", "c", "o", "m", "p", "a", "n", "y" >>,
       << "l", "i", "s", "t", " ", "o", "f" >>,
       << "s", "h", "o", "w", " ", "m", "e" >>,
       << "w", "h", "a", "t", " ", "a", "r", "e" >>,
       << "g", "i", "v", "e", " ", "m", "e" >>,
       << "i", " ", "w", "a", "n", "t" >>,
       << "c", "a", "n", " ", "y", "o", "u" >> >>

\* any(phrase in text for phrase in meta_phrases)
HasMetaPhrase(text) ==
    \E k \in 1..Len(meta_phrases) : Contains(text, meta_phrases[k])

\* validate_name(name) -> (is_valid, error_message)
validate_name(raw) ==
    LET name == Strip(raw)
        words == Split(name)
        alnum == Cardinality({i \in 1..Len(name) : IsAlpha(name[i]) \/ IsSpace(name[i])})
    IN  IF HasMetaPhrase(Lower(name))
        THEN [is_valid |-> FALSE,
              error_msg |-> Msg("I need your actual name, not a request. Could you please provide your full first and last name?", << >>)]
        ELSE IF Len(name) < 2
        THEN [is_valid |-> FALSE,
              error_msg |-> Msg("That seems too short. Could you provide your full first and last name?", << >>)]
        ELSE IF Len(words) < 2
        THEN [is_valid |-> FALSE,
              error_msg |-> Msg("I need both your first and last name. Could you provide your full name?", << >>)]
        ELSE IF 10 * alnum < 7 * Len(name)
        THEN [is_valid |-> FALSE,
              error_msg |-> Msg("That doesn't look like a valid name. Could you spell your full name for me?", << >>)]
        ELSE [is_valid |-> TRUE, error_msg |-> Msg("", << >>)]

\* validate_years_of_experience without the upper limit of 50.
ValidateExperienceNoLimit(raw) ==
    LET experience == Lower(Strip(raw))
        numbers == FindAllDigits(experience, 1)
    IN  IF HasMetaPhrase(experience) \/ Len(numbers) = 0
        THEN [is_valid |-> FALSE, error_msg |-> Msg("", << >>), years |-> -1]
        ELSE [is_valid |-> TRUE, error_msg |-> Msg("", << >>), years |-> ParseInt(numbers[1])]

\* validate_years_of_experience(experience) -> (is_valid, error_message, parsed_value)
validate_years_of_experience(raw) ==
    LET experience == Lower(Strip(raw))
        numbers == FindAllDigits(experience, 1)
        years == ParseInt(numbers[1])
    IN  IF HasMetaPhrase(experience)
        THEN [is_valid |-> FALSE,
              error_msg |-> Msg("I need to know your years of experience. How many years have you been working professionally? Please give me a number.", << >>),
              years |-> -1]
        ELSE IF Len(numbers) = 0
        THEN [is_valid |-> FALSE,
              error_msg |-> Msg("I need the number of years. For example, 5 years or 10 years. How many years would that be?", << >>),
              years |-> -1]
        ELSE IF years < 0
        THEN [is_valid |-> FALSE,
              error_msg |-> Msg("Years of experience cannot be negative. How many years of experience do you have?", << >>),
              years |-> -1]
        ELSE IF years > 50
        THEN [is_valid |-> FALSE,
              error_msg |-> Msg("Just to confirm, you said {} years of experience - is that correct?", << IntToStr(years) >>),
              years |-> years]
        ELSE [is_valid |-> TRUE, error_msg |-> Msg("", << >>), years |-> years]

\* The separator class [/-] of the date patterns.
IsDateSep(c) == c = "/" \/ c = "-"

\* One or two digits followed by a separator, at position i: the length of the
\* group \d{1,2} (greedy; a shorter group would be followed by a digit), or 0.
ShortGroup(s, i) ==
    LET n == IF DigitRun(s, i) >= 2 THEN 2 ELSE DigitRun(s, i)
    IN  IF n >= 1 /\ i + n <= Len(s) /\ IsDateSep(s[i + n]) THEN n ELSE 0

\* (\d{1,2})[/-](\d{1,2})[/-](\d{4}) matched at position i: its groups, or << >>.
MatchDMY(s, i) ==
    LET n1 == ShortGroup(s, i)
        j == i + n1 + 1
        n2 == ShortGroup(s, j)
        k == j + n2 + 1
    IN  IF n1 > 0 /\ n2 > 0 /\ DigitRun(s, k) >= 4
        THEN << SubSeq(s, i, i + n1 - 1), SubSeq(s, j, j + n2 - 1), SubSeq(s, k, k + 3) >>
        ELSE << >>

\* (\d{4})[/-](\d{1,2})[/-](\d{1,2}) matched at position i: its groups, or << >>.
MatchYMD(s, i) ==
    LET j == i + 5
        n2 == ShortGroup(s, j)
        k == j + n2 + 1
        n3 == IF DigitRun(s, k) >= 2 THEN 2 ELSE DigitRun(s, k)
    IN  IF DigitRun(s, i) >= 4 /\ i + 4 <= Len(s) /\ IsDateSep(s[i + 4])
           /\ n2 > 0 /\ n3 >= 1
        THEN << SubSeq(s, i, i + 3), SubSeq(s, j, j + n2 - 1), SubSeq(s, k, k + n3 - 1) >>
        ELSE << >>

\* re.search(pattern, s).groups(): the groups of the leftmost match of date
\* pattern p (1: day-or-month first, 2: year first), or << >> without a match.
DateSearch(p, s) ==
    LET At(i) == IF p = 1 THEN MatchDMY(s, i) ELSE MatchYMD(s, i)
        hits == {i \in 1..Len(s) : At(i) # << >>}
    IN  IF hits = {} THEN << >>
        ELSE At(CHOOSE i \in hits : \A h \in hits : i <= h)

IsLeapYear(y) == (y % 4 = 0 /\ y % 100 # 0) \/ y % 400 = 0

DaysInMonth(y, m) ==
    IF m = 2 THEN (IF IsLeapYear(y) THEN 29 ELSE 28)
    ELSE IF m \in {4, 6, 9, 11} THEN 30 ELSE 31

\* What strptime accepts for %d (1..31) and %m (1..12): one or two digits.
IsDayField(t) == Len(t) <= 2 /\ ParseInt(t) >= 1 /\ ParseInt(t) <= 31

IsMonthField(t) == Len(t) <= 2 /\ ParseInt(t) >= 1 /\ ParseInt(t) <= 12

\* datetime(y, m, d) exists.
IsCalendarDate(y, m, d) == y >= 1 /\ d <= DaysInMonth(y, m)

\* datetime.strptime(parts joined by "/", fmt) for fmt 1: %d/%m/%Y,
\* 2: %m/%d/%Y, 3: %Y/%m/%d; the date as << year, month, day >>, or << >> for
\* a ValueError.
Strptime(parts, fmt) ==
    LET d == IF fmt = 1 THEN parts[1] ELSE IF fmt = 2 THEN parts[2] ELSE parts[3]
        m == IF fmt = 1 THEN parts[2] ELSE IF fmt = 2 THEN parts[1] ELSE parts[2]
        y == IF fmt = 3 THEN parts[1] ELSE parts[3]
    IN  IF Len(y) = 4 /\ IsDayField(d) /\ IsMonthField(m)
           /\ IsCalendarDate(ParseInt(y), ParseInt(m), ParseInt(d))
        THEN << ParseInt(y), ParseInt(m), ParseInt(d) >>
        ELSE << >>

\* The inner loop of validate_date_of_birth: the first of the three formats
\* that parses the groups.
FirstFormat(parts) ==
    IF Strptime(parts, 1) # << >> THEN Strptime(parts, 1)
    ELSE IF Strptime(parts, 2) # << >> THEN Strptime(parts, 2)
    ELSE Strptime(parts, 3)

\* The outer loop of validate_date_of_birth: the first pattern whose match
\* parses under some format gives date_obj; << >> when none does.
ParseDate(dob) ==
    LET g1 == DateSearch(1, dob)
        g2 == DateSearch(2, dob)
    IN  IF g1 # << >> /\ FirstFormat(g1) # << >> THEN FirstFormat(g1)
        ELSE IF g2 # << >> THEN FirstFormat(g2)
        ELSE << >>

\* datetime.now() as << year, month, day >>: the day the turns are processed.
Today == << 2025, 6, 15 >>

\* age = today.year - date.year - ((today.month, today.day) < (date.month, date.day))
AgeOn(today, date) ==
    today[1] - date[1]
    - (IF today[2] < date[2] \/ (today[2] = date[2] /\ today[3] < date[3]) THEN 1 ELSE 0)

\* validate_date_of_birth without the upper limit of 80.
ValidateDobNoUpperLimit(raw) ==
    LET dob == Strip(raw)
        date_obj == ParseDate(dob)
    IN  IF HasMetaPhrase(Lower(dob)) \/ date_obj = << >> \/ AgeOn(Today, date_obj) < 18
        THEN [is_valid |-> FALSE, error_msg |-> Msg("", << >>)]
        ELSE [is_valid |-> TRUE, error_msg |-> Msg("", << >>)]

\* validate_date_of_birth(dob) -> (is_valid, error_message)
validate_date_of_birth(raw) ==
    LET dob == Strip(raw)
        date_obj == ParseDate(dob)
        age == AgeOn(Today, date_obj)
    IN  IF HasMetaPhrase(Lower(dob))
        THEN [is_valid |-> FALSE,
              error_msg |-> Msg("I need your date of birth, not a request. Could you provide your birth date? For example, March 15th, 1990.", << >>)]
        ELSE IF date_obj = << >>
        THEN [is_valid |-> FALSE,
              error_msg |-> Msg("I need the complete date. Could you give me the month, day, and year? For example, March 15th, 1990.", << >>)]
        ELSE IF age < 18
        THEN [is_valid |-> FALSE,
              error_msg |-> Msg("You must be at least 18 years old. Could you verify your date of birth?", << >>)]
        ELSE IF age > 80
        THEN [is_valid |-> FALSE,
              error_msg |-> Msg("Just to confirm, that would make you {} years old. Is that correct?", << IntToStr(age) >>)]
        ELSE [is_valid |-> TRUE, error_msg |-> Msg("", << >>)]

\* The character classes of email_pattern.
IsAlnum(c) == IsAlpha(c) \/ IsDigit(c)

IsLocalChar(c) == IsAlnum(c) \/ c \in {".", "_", "%", "+", "-"}

IsDomainChar(c) == IsAlnum(c) \/ c \in {".", "-"}

\* re.match(email_pattern, email) with
\* email_pattern = ^[a-zA-Z0-9._%+-]+@[a-zA-Z0-9.-]+\.[a-zA-Z]{2,}$
MatchesEmailPattern(email) ==
    \E a \in 2..Len(email) : \E d \in (a + 2)..(Len(email) - 2) :
        /\ email[a] = "@"
        /\ \A i \in 1..(a - 1) : IsLocalChar(email[i])
        /\ \A i \in (a + 1)..(d - 1) : IsDomainChar(email[i])
        /\ email[d] = "."
        /\ \A i \in (d + 1)..Len(email) : IsAlpha(email[i])

\* validate_email(email) -> (is_valid, error_message)
validate_email(raw) ==
    LET email == Lower(Strip(raw))
    IN  IF HasMetaPhrase(email)
        THEN [is_valid |-> FALSE,
              error_msg |-> Msg("I need your email address, not a request. Could you provide your email?", << >>)]
        ELSE IF ~MatchesEmailPattern(email)
        THEN [is_valid |-> FALSE,
              error_msg |-> Msg("That doesn't look like a valid email address. Could you provide your email in the format: name@company.com?", << >>)]
        ELSE [is_valid |-> TRUE, error_msg |-> Msg("", << >>)]

(***************************************************************************)
(* Static data (static/user.json, read once at start-up)                   *)
(***************************************************************************)

\* The file is data the service is started with: here a directory of eleven
\* employers (one more than the ten the handlers list at a time) and one
\* employment record.

\* company_list: the employer directory, in file order.
company_list ==
    << << "T", "e", "c", "h", " ", "I", "n", "n", "o", "v", "a", "t", "i", "o", "n", "s", " ", "I", "n", "c" >>,
       << "G", "l", "o", "b", "a", "l", " ", "S", "o", "l", "u", "t", "i", "o", "n", "s", " ", "L", "t", "d" >>,
       << "C", "l", "o", "u", "d", " ", "S", "e", "r", "v", "i", "c", "e", "s", " ", "I", "n", "t", "e", "r", "n", "a", "t", "i", "o", "n", "a", "l" >>,
       << "A", "I", " ", "R", "e", "s", "e", "a", "r", "c", "h", " ", "L", "a", "b", "s" >>,
       << "A", "c", "m", "e" >>,
       << "I", "n", "i", "t", "e", "c", "h" >>,
       << "G", "l", "o", "b", "e", "x" >>,
       << "U", "m", "b", "r", "e", "l", "l", "a" >>,
       << "H", "o", "o", "l", "i" >>,
       << "S", "t", "a", "r", "k" >>,
       << "W", "a", "y", "n", "e" >> >>

\* users: the employment records, by e-mail address.
users ==
    [e \in {<< "j", "o", "h", "n", "@", "a", "c", "m", "e", ".", "c", "o", "m" >>} |->
        [company_name |-> << "A", "c", "m", "e" >>]]

\* None, as users.get returns it for an address without a record.
None == [none |-> TRUE]

\* get_employment(email): users.get(email)
get_employment(email) == IF email \in DOMAIN users THEN users[email] ELSE None

(***************************************************************************)
(* Fuzzy company matcher (difflib.get_close_matches)                       *)
(***************************************************************************)

\* The length of the longest common run of a from i and b from j, inside
\* a[..ahi] and b[..bhi].
RECURSIVE CommonRun(_, _, _, _, _, _)
CommonRun(a, b, i, j, ahi, bhi) ==
    IF i > ahi \/ j > bhi \/ a[i] # b[j] THEN 0
    ELSE 1 + CommonRun(a, b, i + 1, j + 1, ahi, bhi)

\* SequenceMatcher.find_longest_match(alo, ahi, blo, bhi) without junk: the
\* longest block a[i..i+k-1] = b[j..j+k-1]; of the longest, the one that starts
\* earliest in a, and of those the one that starts earliest in b. << i, j, k >>.
find_longest_match(a, b, alo, ahi, blo, bhi) ==
    LET runs == {<< i, j, CommonRun(a, b, i, j, ahi, bhi) >> : i \in alo..ahi, j \in blo..bhi}
        longest == {r \in runs : \A q \in runs : q[3] <= r[3]}
        best == CHOOSE r \in longest : \A q \in longest :
                    r[1] < q[1] \/ (r[1] = q[1] /\ r[2] <= q[2])
    IN  IF runs = {} THEN << alo, blo, 0 >> ELSE best

\* The total size of SequenceMatcher.get_matching_blocks(): the longest match,
\* then recursively the pieces to its left and to its right.
RECURSIVE MatchingChars(_, _, _, _, _, _)
MatchingChars(a, b, alo, ahi, blo, bhi) ==
    LET m == find_longest_match(a, b, alo, ahi, blo, bhi)
    IN  IF m[3] = 0 THEN 0
        ELSE m[3]
             + MatchingChars(a, b, alo, m[1] - 1, blo, m[2] - 1)
             + MatchingChars(a, b, m[1] + m[3], ahi, m[2] + m[3], bhi)

\* SequenceMatcher(None, a, b).ratio() = 2.0 * matches / (len(a) + len(b)), as the
\* fraction << numerator, denominator >>; 1.0 for two empty strings.
Ratio(a, b) ==
    IF Len(a) + Len(b) = 0 THEN << 1, 1 >>
    ELSE << 2 * MatchingChars(a, b, 1, Len(a), 1, Len(b)), Len(a) + Len(b) >>

\* Comparison of two fractions with positive denominators.
FracLess(x, y) == x[1] * y[2] < y[1] * x[2]

\* x < y for Python strings: lexicographic by code point.
RECURSIVE StrLess(_, _)
StrLess(x, y) ==
    IF Len(y) = 0 THEN FALSE
    ELSE IF Len(x) = 0 THEN TRUE
    ELSE IF x[1] # y[1] THEN Ord(x[1]) < Ord(y[1])
    ELSE StrLess(Tail(x), Tail(y))

\* The n and cutoff suggest_company_matches passes to get_close_matches;
\* the cutoff 0.4 is CutoffNum / CutoffDen.
MaxMatches == 5

CutoffNum == 4

CutoffDen == 10

\* get_close_matches as it would be if it returned every close possibility.
GetEveryCloseMatch(word, possibilities, n, cutoff) ==
    LET score == [i \in 1..Len(possibilities) |-> Ratio(possibilities[i], word)]
        close == {i \in 1..Len(possibilities) : ~FracLess(score[i], cutoff)}
        before(i, j) ==
            \/ FracLess(score[j], score[i])
            \/ /\ ~FracLess(score[i], score[j])
               /\ \/ StrLess(possibilities[j], possibilities[i])
                  \/ possibilities[i] = possibilities[j] /\ i < j
        rank == [i \in close |-> 1 + Cardinality({j \in close : before(j, i)})]
    IN  [r \in 1..Cardinality(close) |-> possibilities[CHOOSE i \in close : rank[i] = r]]

\* difflib.get_close_matches(word, possibilities, n, cutoff): the possibilities
\* whose ratio to word is at least the cutoff, the n best, best first (equal
\* scores: the greater string first, as tuples (score, x) compare).
get_close_matches(word, possibilities, n, cutoff) ==
    LET score == [i \in 1..Len(possibilities) |-> Ratio(possibilities[i], word)]
        close == {i \in 1..Len(possibilities) : ~FracLess(score[i], cutoff)}
        before(i, j) ==
            \/ FracLess(score[j], score[i])
            \/ /\ ~FracLess(score[i], score[j])
               /\ \/ StrLess(possibilities[j], possibilities[i])
                  \/ possibilities[i] = possibilities[j] /\ i < j
        rank == [i \in close |-> 1 + Cardinality({j \in close : before(j, i)})]
        count == IF Cardinality(close) < n THEN Cardinality(close) ELSE n
    IN  [r \in 1..count |-> possibilities[CHOOSE i \in close : rank[i] = r]]

\* suggest_company_matches(user_input)
suggest_company_matches(user_input) ==
    get_close_matches(user_input, company_list, MaxMatches, << CutoffNum, CutoffDen >>)

\* suggest_company_matches(user_input) when static/user.json holds the given
\* list of companies.
SuggestFrom(directory, user_input) ==
    get_close_matches(user_input, directory, MaxMatches, << CutoffNum, CutoffDen >>)

\* A list of companies whose names are close to one another, as the branches
\* of one firm are.
similar_companies ==
    << << "A", "c", "m", "e" >>,
       << "A", "c", "m", "e", " ", "I", "n", "c" >>,
       << "A", "c", "m", "e", " ", "L", "t", "d" >>,
       << "A", "c", "m", "e", " ", "L", "a", "b", "s" >>,
       << "A", "c", "m", "e", " ", "C", "o", "r", "p" >>,
       << "A", "c", "m", "e", " ", "G", "r", "o", "u", "p" >>,
       << "A", "c", "m", "e", " ", "C", "o" >> >>

\* The lists static/user.json may hold: the first entries of either list.
Directories ==
    {SubSeq(company_list, 1, k) : k \in 1..Len(company_list)}
    \cup {SubSeq(similar_companies, 1, k) : k \in 1..Len(similar_companies)}

\* The names the matcher is asked about: every entry of either list, and
\* names that are on neither.
MatcherInputs ==
    {company_list[i] : i \in 1..Len(company_list)}
    \cup {similar_companies[i] : i \in 1..Len(similar_companies)}
    \cup {<< "A", "c", "m" >>,
          << "G", "l", "o", "b", "l", " ", "S", "o", "l", "u", "t", "i", "o", "n", "s" >>,
          << "Z", "z", "y", "z", "x" >>}

(***************************************************************************)
(* What the callers say                                                    *)
(***************************************************************************)

\* What the caller says, by the state the session is in: an input for every
\* branch of that state's handler.
Utterances(state) ==
    IF state = "GREETING" THEN {<< "B", "o", "b", " ", "S", "m", "i", "t", "h" >>, << "B", "o", "b" >>}
    ELSE IF state = "COLLECTING_EXPERIENCE" THEN {<< "7" >>, << "a", "b", "o", "u", "t", " ", "t", "e", "n" >>}
    ELSE IF state = "COLLECTING_DOB" THEN {<< "1", "5", "/", "0", "3", "/", "1", "9", "9", "0" >>, << "M", "a", "r", "c", "h" >>}
    ELSE IF state = "COLLECTING_EMAIL"
    THEN {<< "J", "o", "h", "n", "@", "A", "c", "m", "e", ".", "c", "o", "m" >>,
          << "j", "a", "n", "e", "@", "x", ".", "o", "r", "g" >>,
          << "j", "a", "n", "e" >>}
    ELSE IF state = "VERIFYING_EMPLOYMENT" THEN {<< "Y", "e", "s" >>, << "n", "o" >>, << "m", "a", "y", "b", "e" >>}
    ELSE IF state = "ASKING_COMPANY"
    THEN {<< "c", "o", "m", "p", "a", "n", "y", " ", "l", "i", "s", "t" >>,
          << "A", "c", "m", "e" >>,
          << "G", "l", "o", "b", "l", " ", "S", "o", "l", "u", "t", "i", "o", "n", "s" >>,
          << "Z", "z", "y", "z", "x" >>}
    ELSE IF state = "SELECTING_COMPANY"
    THEN {<< "1" >>,
          << "A", "c", "m", "e" >>,
          << "H", "o", "o", "l", "y" >>,
          << "Z", "z", "y", "z", "x" >>}
    ELSE IF state = "CONFIRMING_UNKNOWN_COMPANY" THEN {<< "y", "e", "s" >>, << "n", "o" >>}
    ELSE {<< "B", "o", "b", " ", "S", "m", "i", "t", "h" >>, << "n", "o" >>}

\* The states of a session.
States ==
    {"GREETING", "COLLECTING_EXPERIENCE", "COLLECTING_DOB", "COLLECTING_EMAIL",
     "VERIFYING_EMPLOYMENT", "ASKING_COMPANY", "SELECTING_COMPANY",
     "CONFIRMING_UNKNOWN_COMPANY", "COMPLETED"}

\* What the callers say when several of them use the service at once: a full
\* name or a number, whatever the state.
ServiceUtterances == {<< "B", "o", "b", " ", "S", "m", "i", "t", "h" >>, << "7" >>}
ConcurrentUtterances == {<< "B", "o", "b", " ", "S", "m", "i", "t", "h" >>}

\* What a caller says who is older, or longer at work, or younger than the
\* validators expect, and who answers the list of companies with numbers on
\* it and off it, and with a superscript.
EdgeUtterances(state) ==
    IF state = "GREETING"
    THEN {<< "B", "o", "b", " ", "S", "m", "i", "t", "h" >>,
          << " ", "A", "n", "n", " ", " ", "L", "e", "e", " ", "J", "o", "n", "e", "s" >>}
    ELSE IF state = "COLLECTING_EXPERIENCE" THEN {<< "7" >>, << "6", "0" >>}
    ELSE IF state = "COLLECTING_DOB"
    THEN {<< "1", "5", "/", "0", "3", "/", "1", "9", "9", "0" >>,
          << "0", "1", "/", "0", "2", "/", "1", "9", "3", "0" >>,
          << "0", "1", "/", "0", "2", "/", "2", "0", "1", "0" >>}
    ELSE IF state = "COLLECTING_EMAIL" THEN {<< "j", "a", "n", "e", "@", "x", ".", "o", "r", "g" >>}
    ELSE IF state = "ASKING_COMPANY"
    THEN {<< "c", "o", "m", "p", "a", "n", "y", " ", "l", "i", "s", "t" >>,
          << "G", "l", "o", "b", "l", " ", "S", "o", "l", "u", "t", "i", "o", "n", "s" >>}
    ELSE IF state = "SELECTING_COMPANY"
    THEN {<< "0" >>, << "2" >>, << "0", "7" >>, << "1", "2" >>, << SuperscriptTwo >>,
          << "A", "c", "m", "e" >>, << "H", "o", "o", "l", "y" >>}
    ELSE {<< "n", "o" >>}

\* Every user_input the handler sees: message.strip() of what the callers say.
UserInputs ==
    {Strip(m) : m \in UNION {Utterances(st) \cup EdgeUtterances(st) : st \in States}
                      \cup ServiceUtterances}

\* The validators and the matcher on every user_input, computed once.
Checked ==
    [u \in UserInputs |->
        [name |-> validate_name(u),
         experience |-> validate_years_of_experience(u),
         dob |-> validate_date_of_birth(u),
         email |-> validate_email(u),
         matches |-> suggest_company_matches(u)]]

(***************************************************************************)
(* Sessions                                                                *)
(***************************************************************************)

\* A plain string as a text of the conversation.
Text(u) == Msg("{}", << u >>)

\* d[k] = v on a dict.
Put(d, k, v) == [x \in (DOMAIN d) \cup {k} |-> IF x = k THEN v ELSE d[x]]

\* The empty dict.
EmptyDict == [x \in {} |-> 0]

\* company_list[:10], the page of the directory shown to the user.
DirectoryPage == 10

FirstCompanies ==
    Slice(company_list, 1, IF Len(company_list) < DirectoryPage
                           THEN Len(company_list) ELSE DirectoryPage)

\* The retry count at which the reply is delegated to chat_response.
RetryCeiling == 3

\* The session create_session stores, with the greeting already in its history.
Greeting ==
    Msg("Hello! Welcome to the Employment Verification System. Let's start by collecting some information. What is your full name?", << >>)

NewSession ==
    [conversation_history |-> << [role |-> "assistant", content |-> Greeting] >>,
     state |-> "GREETING",
     user_data |-> EmptyDict,
     verified |-> FALSE,
     retry_counts |-> [name |-> 0, experience |-> 0, dob |-> 0, email |-> 0]]

\* The affirmative and negative lexicons of VERIFYING_EMPLOYMENT and the
\* affirmative lexicon of CONFIRMING_UNKNOWN_COMPANY.
VerifyYes ==
    { << "y", "e", "s" >>,
      << "y", "e", "a", "h" >>,
      << "y", "e", "p" >>,
      << "c", "o", "r", "r", "e", "c", "t" >>,
      << "r", "i", "g", "h", "t" >>,
      << "t", "h", "a", "t", "'", "s", " ", "r", "i", "g", "h", "t" >>,
      << "t", "h", "a", "t", "'", "s", " ", "c", "o", "r", "r", "e", "c", "t" >>,
      << "y", "e", "s", " ", "i", "t", " ", "i", "s" >> }

VerifyNo ==
    { << "n", "o" >>,
      << "n", "o", "p", "e" >>,
      << "n", "o", "t", " ", "c", "o", "r", "r", "e", "c", "t" >>,
      << "w", "r", "o", "n", "g" >>,
      << "i", "n", "c", "o", "r", "r", "e", "c", "t" >>,
      << "n", "o", " ", "i", "t", "'", "s", " ", "n", "o", "t" >> }

ConfirmYes ==
    { << "y", "e", "s" >>,
      << "y", "e", "a", "h" >>,
      << "y", "e", "p" >>,
      << "c", "o", "r", "r", "e", "c", "t" >>,
      << "c", "o", "n", "f", "i", "r", "m" >>,
      << "o", "k" >>,
      << "o", "k", "a", "y" >> }

\* What one branch of the state machine of chat hands back: the session as the
\* branch leaves it, the reply, the suggestions (None: << >>; the handler never
\* assigns an empty list, the directory being non-empty), and whether the reply
\* is to come from chat_response instead.
Outcome(session, response_text, suggestions, delegate) ==
    [session |-> session, response_text |-> response_text,
     suggestions |-> suggestions, delegate |-> delegate, raised |-> FALSE]

NoText == Msg("", << >>)

\* The state machine left by an exception nothing catches: the session as it
\* stands, and no reply.
Raise(session) == [Outcome(session, NoText, << >>, FALSE) EXCEPT !.raised = TRUE]

\* Rejected with the ceiling compared by > instead of >=: chat_response is
\* called one rejection late.
RejectedAfterCeiling(session, field, error_msg) ==
    LET count == session.retry_counts[field] + 1
        s1 == [session EXCEPT !.retry_counts[field] = count]
    IN  IF count > RetryCeiling
        THEN Outcome(s1, NoText, << >>, TRUE)
        ELSE Outcome(s1, error_msg, << >>, FALSE)

\* Rejected with the counter held at the ceiling once it is there.
RejectedCapped(session, field, error_msg) ==
    LET count == IF session.retry_counts[field] >= RetryCeiling
                 THEN RetryCeiling ELSE session.retry_counts[field] + 1
        s1 == [session EXCEPT !.retry_counts[field] = count]
    IN  IF count >= RetryCeiling
        THEN Outcome(s1, NoText, << >>, TRUE)
        ELSE Outcome(s1, error_msg, << >>, FALSE)

\* Rejected counting every failure on the counter of the name.
RejectedOnName(session, field, error_msg) ==
    LET s1 == [session EXCEPT !.retry_counts["name"] = @ + 1]
    IN  IF s1.retry_counts["name"] >= RetryCeiling
        THEN Outcome(s1, NoText, << >>, TRUE)
        ELSE Outcome(s1, error_msg, << >>, FALSE)

\* The else-branch of the four collection states: count the failure, and reply
\* with the validator's message below the ceiling, through chat_response from it.
Rejected(session, field, error_msg) ==
    LET count == session.retry_counts[field] + 1
        s1 == [session EXCEPT !.retry_counts[field] = count]
    IN  IF count >= RetryCeiling
        THEN Outcome(s1, NoText, << >>, TRUE)
        ELSE Outcome(s1, error_msg, << >>, FALSE)

(***************************************************************************)
(* The state machine of chat: one operator per branch                      *)
(***************************************************************************)

\* In every branch, checks is what the validators and the matcher return on
\* user_input: checks.name is validate_name(user_input), and so on.

\* ChatGreeting taking the last word of the name for the first name.
ChatGreetingLastWord(session, user_input, checks) ==
    LET v == checks.name
        first_name == Split(user_input)[Len(Split(user_input))]
        ud == Put(Put(session.user_data, "name", user_input), "first_name", first_name)
    IN  IF v.is_valid
        THEN Outcome([session EXCEPT !.user_data = ud,
                                     !.state = "COLLECTING_EXPERIENCE",
                                     !.retry_counts.name = 0],
                     Msg("Nice to meet you, {}! How many years of experience do you have?",
                         << first_name >>),
                     << >>, FALSE)
        ELSE Rejected(session, "name", v.error_msg)

\* state == "GREETING": collect and validate the name.
ChatGreeting(session, user_input, checks) ==
    LET v == checks.name
        first_name == Split(user_input)[1]
        ud == Put(Put(session.user_data, "name", user_input), "first_name", first_name)
    IN  IF v.is_valid
        THEN Outcome([session EXCEPT !.user_data = ud,
                                     !.state = "COLLECTING_EXPERIENCE",
                                     !.retry_counts.name = 0],
                     Msg("Nice to meet you, {}! How many years of experience do you have?",
                         << first_name >>),
                     << >>, FALSE)
        ELSE Rejected(session, "name", v.error_msg)

\* ChatExperience without the reset of the retry counter on acceptance.
ChatExperienceKeepsCount(session, user_input, checks) ==
    LET v == checks.experience
    IN  IF v.is_valid
        THEN Outcome([session EXCEPT
                         !.user_data = Put(@, "years_of_experience", v.years),
                         !.state = "COLLECTING_DOB"],
                     Msg("Great! What is your date of birth? Please say it in a format like day, month, year.", << >>),
                     << >>, FALSE)
        ELSE Rejected(session, "experience", v.error_msg)

\* state == "COLLECTING_EXPERIENCE"
ChatExperience(session, user_input, checks) ==
    LET v == checks.experience
    IN  IF v.is_valid
        THEN Outcome([session EXCEPT
                         !.user_data = Put(@, "years_of_experience", v.years),
                         !.state = "COLLECTING_DOB",
                         !.retry_counts.experience = 0],
                     Msg("Great! What is your date of birth? Please say it in a format like day, month, year.", << >>),
                     << >>, FALSE)
        ELSE Rejected(session, "experience", v.error_msg)

\* state == "COLLECTING_DOB"
ChatDob(session, user_input, checks) ==
    LET v == checks.dob
    IN  IF v.is_valid
        THEN Outcome([session EXCEPT
                         !.user_data = Put(@, "date_of_birth", user_input),
                         !.state = "COLLECTING_EMAIL",
                         !.retry_counts.dob = 0],
                     Msg("Thank you, {}! Now, please provide your email address so I can check our records.",
                         << session.user_data["first_name"] >>),
                     << >>, FALSE)
        ELSE Rejected(session, "dob", v.error_msg)

\* ChatEmail looking the address up as it was typed, the stored one lower-cased.
ChatEmailLooksUpAsTyped(session, user_input, checks) ==
    LET v == checks.email
        email == Lower(Strip(user_input))
        record == get_employment(Strip(user_input))
        ud == Put(Put(session.user_data, "email", email), "employment_record", record)
    IN  IF v.is_valid
        THEN Outcome([session EXCEPT !.user_data = ud,
                                     !.state = IF record # None THEN "VERIFYING_EMPLOYMENT"
                                               ELSE "ASKING_COMPANY",
                                     !.retry_counts.email = 0],
                     NoText, << >>, FALSE)
        ELSE Rejected(session, "email", v.error_msg)

\* state == "COLLECTING_EMAIL"
ChatEmail(session, user_input, checks) ==
    LET v == checks.email
        email == Lower(Strip(user_input))
        record == get_employment(email)
        ud == Put(Put(session.user_data, "email", email), "employment_record", record)
        first_name == session.user_data["first_name"]
    IN  IF v.is_valid
        THEN IF record # None
             THEN Outcome([session EXCEPT !.user_data = ud,
                                          !.state = "VERIFYING_EMPLOYMENT",
                                          !.retry_counts.email = 0],
                          Msg("Hi {}, it's great to talk with you! Our records show you work at {}. Is that still correct?",
                              << first_name, record.company_name >>),
                          << >>, FALSE)
             ELSE Outcome([session EXCEPT !.user_data = ud,
                                          !.state = "ASKING_COMPANY",
                                          !.retry_counts.email = 0],
                          Msg("I couldn't find any employment records for {}. Could you please tell me your current company name from this list of company?",
                              << email >>),
                          << >>, FALSE)
        ELSE Rejected(session, "email", v.error_msg)

\* ChatVerifying taking every answer that is not a yes for a no.
ChatVerifyingNoByDefault(session, user_input, checks) ==
    IF Lower(user_input) \in VerifyYes
    THEN Outcome([session EXCEPT !.state = "COMPLETED", !.verified = TRUE], NoText, << >>, FALSE)
    ELSE Outcome([session EXCEPT !.state = "ASKING_COMPANY"], NoText, << >>, FALSE)

\* ChatVerifying completing the session without setting verified.
ChatVerifyingForgetsFlag(session, user_input, checks) ==
    IF Lower(user_input) \in VerifyYes
    THEN Outcome([session EXCEPT !.state = "COMPLETED"], NoText, << >>, FALSE)
    ELSE IF Lower(user_input) \in VerifyNo
    THEN Outcome([session EXCEPT !.state = "ASKING_COMPANY"], NoText, << >>, FALSE)
    ELSE Outcome(session, NoText, << >>, TRUE)

\* state == "VERIFYING_EMPLOYMENT"
ChatVerifying(session, user_input, checks) ==
    LET first_name == session.user_data["first_name"]
    IN  IF Lower(user_input) \in VerifyYes
        THEN Outcome([session EXCEPT !.state = "COMPLETED", !.verified = TRUE],
                     Msg("Perfect! Thank you {}, your employment verification is complete. Have a great day!",
                         << first_name >>),
                     << >>, FALSE)
        ELSE IF Lower(user_input) \in VerifyNo
        THEN Outcome([session EXCEPT !.state = "ASKING_COMPANY"],
                     Msg("No worries, {}! Could you please tell me your current company name present in List of company? List of company",
                         << first_name >>),
                     << >>, FALSE)
        ELSE Outcome(session, NoText, << >>, TRUE)

\* "list" in user_input.lower() and ("company" in ... or "companies" in ...)
AsksForList(user_input) ==
    /\ Contains(Lower(user_input), << "l", "i", "s", "t" >>)
    /\ \/ Contains(Lower(user_input), << "c", "o", "m", "p", "a", "n", "y" >>)
       \/ Contains(Lower(user_input), << "c", "o", "m", "p", "a", "n", "i", "e", "s" >>)

\* x in company_list as it would be if every name were on the list.
AnyCompany(x) == TRUE

\* x in company_list
InCompanyList(x) == InSeq(company_list, x)

\* state == "ASKING_COMPANY"
ChatAsking(session, user_input, checks) ==
    LET first_name == session.user_data["first_name"]
        matches == checks.matches
    IN  IF AsksForList(user_input)
        THEN Outcome([session EXCEPT !.state = "SELECTING_COMPANY",
                                     !.user_data = Put(@, "company_matches", FirstCompanies)],
                     Msg("Here are some companies in our system: {}. Please say the number of your company, or say your company name.",
                         FirstCompanies),
                     FirstCompanies, FALSE)
        ELSE IF InCompanyList(user_input)
        THEN Outcome([session EXCEPT !.user_data = Put(@, "company_name", user_input),
                                     !.state = "COMPLETED",
                                     !.verified = TRUE],
                     Msg("Perfect! I've recorded your company as {}. Your verification is complete, {}!",
                         << user_input, first_name >>),
                     << >>, FALSE)
        ELSE IF matches # << >>
        THEN Outcome([session EXCEPT !.state = "SELECTING_COMPANY",
                                     !.user_data = Put(@, "company_matches", matches)],
                     Msg("I found some possible matches: {}. Please say the number of your company, or say your company name if it's not listed.",
                         matches),
                     matches, FALSE)
        ELSE Outcome([session EXCEPT !.state = "SELECTING_COMPANY",
                                     !.user_data = Put(@, "company_matches", FirstCompanies)],
                     Msg("I couldn't find '{}' in our records. Here are some companies from our list of company: {}. Please say the number of your company, or say your company name if it's in our system.",
                         << user_input >> \o FirstCompanies),
                     FirstCompanies, FALSE)

\* state == "SELECTING_COMPANY"
ChatSelecting(session, user_input, checks) ==
    LET matches == IF "company_matches" \in DOMAIN session.user_data
                   THEN session.user_data["company_matches"] ELSE << >>
        first_name == session.user_data["first_name"]
        selected == matches[ParseInt(user_input)]
        new_matches == checks.matches
    IN  IF IsDigitStr(user_input) /\ IntRaises(user_input)
        THEN Raise(session)
        ELSE IF IsDigitStr(user_input) /\ 1 <= ParseInt(user_input)
                                       /\ ParseInt(user_input) <= Len(matches)
        THEN Outcome([session EXCEPT !.user_data = Put(@, "company_name", selected),
                                     !.state = "COMPLETED",
                                     !.verified = TRUE],
                     Msg("Great! I've updated your company to {}. Thank you {}, your verification is complete!",
                         << selected, first_name >>),
                     << >>, FALSE)
        ELSE IF InCompanyList(user_input)
        THEN Outcome([session EXCEPT !.user_data = Put(@, "company_name", user_input),
                                     !.state = "COMPLETED",
                                     !.verified = TRUE],
                     Msg("Perfect! I've recorded your company as {}. Your verification is complete, {}!",
                         << user_input, first_name >>),
                     << >>, FALSE)
        ELSE IF new_matches # << >>
        THEN Outcome([session EXCEPT !.user_data = Put(@, "company_matches", new_matches)],
                     Msg("Did you mean one of these? {}. Please say the number, or type 'none' if your company isn't listed.",
                         new_matches),
                     new_matches, FALSE)
        ELSE Outcome([session EXCEPT !.state = "CONFIRMING_UNKNOWN_COMPANY",
                                     !.user_data = Put(@, "pending_company_name", user_input)],
                     Msg("I still can't find '{}' in our system. Would you like me to record it anyway? Say 'yes' to confirm or 'no' to try again.",
                         << user_input >>),
                     << >>, FALSE)

\* ChatConfirming recording the answer itself instead of the pending name.
ChatConfirmingRecordsAnswer(session, user_input, checks) ==
    IF Lower(user_input) \in ConfirmYes
    THEN Outcome([session EXCEPT !.user_data = Put(@, "company_name", user_input),
                                 !.state = "COMPLETED",
                                 !.verified = TRUE], NoText, << >>, FALSE)
    ELSE Outcome([session EXCEPT !.state = "SELECTING_COMPANY",
                                 !.user_data = Put(@, "company_matches", FirstCompanies)],
                 NoText, FirstCompanies, FALSE)

\* ChatConfirming recording the pending name whatever the answer is.
ChatConfirmingRecordsAnyway(session, user_input, checks) ==
    Outcome([session EXCEPT !.user_data = Put(@, "company_name",
                                              session.user_data["pending_company_name"]),
                            !.state = "COMPLETED",
                            !.verified = TRUE], NoText, << >>, FALSE)

\* ChatConfirming taking the candidates out of user_data when it is done.
ChatConfirmingClears(session, user_input, checks) ==
    IF Lower(user_input) \in ConfirmYes
    THEN Outcome([session EXCEPT
                     !.user_data = [k \in (DOMAIN @) \ {"company_matches"} |->
                                       IF k = "company_name"
                                       THEN session.user_data["pending_company_name"]
                                       ELSE @[k]],
                     !.state = "COMPLETED",
                     !.verified = TRUE], NoText, << >>, FALSE)
    ELSE Outcome([session EXCEPT !.state = "SELECTING_COMPANY",
                                 !.user_data = Put(@, "company_matches", FirstCompanies)],
                 NoText, FirstCompanies, FALSE)

\* state == "CONFIRMING_UNKNOWN_COMPANY"
ChatConfirming(session, user_input, checks) ==
    LET first_name == session.user_data["first_name"]
        pending_company == IF "pending_company_name" \in DOMAIN session.user_data
                           THEN session.user_data["pending_company_name"] ELSE << >>
    IN  IF Lower(user_input) \in ConfirmYes
        THEN Outcome([session EXCEPT !.user_data = Put(@, "company_name", pending_company),
                                     !.state = "COMPLETED",
                                     !.verified = TRUE],
                     Msg("Understood. I've recorded your company as {}. Your verification is complete, {}!",
                         << pending_company, first_name >>),
                     << >>, FALSE)
        ELSE Outcome([session EXCEPT !.state = "SELECTING_COMPANY",
                                     !.user_data = Put(@, "company_matches", FirstCompanies)],
                     Msg("No problem. Here are some companies from our list of company: {}. Please say the number or your company name.",
                         FirstCompanies),
                     FirstCompanies, FALSE)

\* ChatDefault starting the conversation over: the state goes back to GREETING.
ChatDefaultStartsOver(session, user_input, checks) ==
    Outcome([session EXCEPT !.state = "GREETING"], NoText, << >>, TRUE)

\* The final else of the state machine (COMPLETED): chat_response answers.
ChatDefault(session, user_input, checks) == Outcome(session, NoText, << >>, TRUE)

\* The if/elif chain on session["state"].
StateMachine(session, user_input, checks) ==
    IF session.state = "GREETING" THEN ChatGreeting(session, user_input, checks)
    ELSE IF session.state = "COLLECTING_EXPERIENCE" THEN ChatExperience(session, user_input, checks)
    ELSE IF session.state = "COLLECTING_DOB" THEN ChatDob(session, user_input, checks)
    ELSE IF session.state = "COLLECTING_EMAIL" THEN ChatEmail(session, user_input, checks)
    ELSE IF session.state = "VERIFYING_EMPLOYMENT" THEN ChatVerifying(session, user_input, checks)
    ELSE IF session.state = "ASKING_COMPANY" THEN ChatAsking(session, user_input, checks)
    ELSE IF session.state = "SELECTING_COMPANY" THEN ChatSelecting(session, user_input, checks)
    ELSE IF session.state = "CONFIRMING_UNKNOWN_COMPANY" THEN ChatConfirming(session, user_input, checks)
    ELSE ChatDefault(session, user_input, checks)

(***************************************************************************)
(* Audio files                                                             *)
(***************************************************************************)

\* The name text_to_speech gives a file: temp_audio/{session_id}_{uuid}.mp3,
\* with the n-th uuid the process draws.
AudioFile(session_id, n) == << session_id, n >>

\* No file (an error response carries no audio_url).
NoFile == << >>

\* lst.remove(x): lst without the first occurrence of x.
RemoveFirst(lst, x) ==
    LET i == CHOOSE k \in 1..Len(lst) : lst[k] = x /\ \A j \in 1..(k - 1) : lst[j] # x
    IN  SubSeq(lst, 1, i - 1) \o SubSeq(lst, i + 1, Len(lst))

\* One more os.remove of filename in the count of removals.
CountRemoval(rem, filename) ==
    Put(rem, filename, IF filename \in DOMAIN rem THEN rem[filename] + 1 ELSE 1)

\* cleanup_audio_file removing the file but leaving its name on the list.
CleanupKeepsName(fs, tracked, rem, filename) ==
    IF filename \in fs
    THEN [files |-> fs \ {filename},
          tracked |-> tracked,
          removed |-> CountRemoval(rem, filename)]
    ELSE [files |-> fs, tracked |-> tracked, removed |-> rem]

\* cleanup_audio_file without the os.path.exists test: os.remove is called, and
\* the name taken off the list, whether or not the file is there.
CleanupWithoutTest(fs, tracked, rem, filename) ==
    [files |-> fs \ {filename},
     tracked |-> IF InSeq(tracked, filename)
                 THEN RemoveFirst(tracked, filename) ELSE tracked,
     removed |-> CountRemoval(rem, filename)]

\* cleanup_audio_file(filename) on the directory fs, the list tracked and the
\* removals counted so far: if the file exists it is removed, and its name is
\* taken off the list if it is there.
cleanup_audio_file(fs, tracked, rem, filename) ==
    IF filename \in fs
    THEN [files |-> fs \ {filename},
          tracked |-> IF InSeq(tracked, filename)
                      THEN RemoveFirst(tracked, filename) ELSE tracked,
          removed |-> CountRemoval(rem, filename)]
    ELSE [files |-> fs, tracked |-> tracked, removed |-> rem]

\* cleanup_old_audio_files(): cleanup_audio_file for every name of a copy of the
\* list, in order.
RECURSIVE CleanupEach(_, _, _, _)
CleanupEach(fs, tracked, rem, copy) ==
    IF copy = << >> THEN [files |-> fs, tracked |-> tracked, removed |-> rem]
    ELSE LET r == cleanup_audio_file(fs, tracked, rem, Head(copy))
         IN  CleanupEach(r.files, r.tracked, r.removed, Tail(copy))

cleanup_old_audio_files(fs, tracked, rem) == CleanupEach(fs, tracked, rem, tracked)

(***************************************************************************)
(* Bounds of the model and the requests the callers send                   *)
(***************************************************************************)

\* At most: requests to /api/session/create and /api/chat together, sessions
\* created, external failures (chat_response or gTTS raising) and pending
\* delayed_cleanup_audio tasks.
MaxRequests == 8

\* The same requests, at most, when all the endpoints are in use at once.
MaxInterleaved == 4

\* The requests that create or advance a session, at most, while the audio
\* endpoints and the delayed tasks run between them.
MaxConcurrent == 3

MaxCreates == 2

MaxFailures == 1

MaxTasks == 2

\* The session identifier the callers supply, and the identifiers uuid4 gives,
\* in the order it gives them, to sessions created without one.
CallerIds == {"s1"}

GeneratedIds == << "u1", "u2", "u3", "u4" >>

\* What chat_response returns when it returns: a text of the model's own.
GeneratedReply == Msg("(generated by chat_response)", << >>)

(***************************************************************************)
(* State                                                                   *)
(***************************************************************************)

VARIABLES
    sessions,                \* sessions: session_id -> session
    files,                   \* the files of temp_audio/
    audio_files_to_cleanup,  \* the tracked file names, in order of creation
    tasks,                   \* pending delayed_cleanup_audio tasks: file -> how many
    output,                  \* output/{session_id}.json: session_id -> transcript
    response,                \* the response to the last request
    trace,                   \* what the last request did on its way
    history,                 \* what has happened so far (counts, for the bounds and the claims)
    checked                  \* the table Checked, computed once

vars == << sessions, files, audio_files_to_cleanup, tasks, output, response, trace, history,
           checked >>

\* The response to a request: its status and its body.
Http(op, status, body) == [op |-> op, status |-> status, body |-> body]

\* AgentResponse, the body create_session and chat return.
AgentResponse(session_id, message, audio_url, state, suggestions) ==
    [session_id |-> session_id, message |-> message, audio_url |-> audio_url,
     state |-> state, suggestions |-> suggestions]

\* HTTPException(404) as it would be if a missing resource were no error.
NotFoundIsSuccess(op, detail) == [op |-> op, status |-> 200, body |-> [detail |-> detail]]

\* An HTTPException(status_code=404, detail=...).
NotFound(op, detail) == Http(op, 404, [detail |-> detail])

\* An exception no handler catches: the framework answers 500.
ServerError(op) == Http(op, 500, [detail |-> "Internal Server Error"])

\* What the last request on a session did on its way: the handler that ran,
\* the session and the message it was given, whether chat_response and gTTS
\* were called and how they ended ("no", "ok", "raised"), the reply text the
\* handler computed, and whether it called save_session_transcript.
Trace(op, session_id, input, llm, tts, reply, saved) ==
    [op |-> op, session_id |-> session_id, input |-> input, llm |-> llm, tts |-> tts,
     reply |-> reply, saved |-> saved]

\* What a step on the audio files did: the handler or task that ran, the file
\* it was about, and whether it found that file in the directory.
AudioTrace(op, filename, existed) == [op |-> op, input |-> filename, existed |-> existed]

Init ==
    /\ sessions = EmptyDict
    /\ files = {}
    /\ audio_files_to_cleanup = << >>
    /\ tasks = EmptyDict
    /\ output = EmptyDict
    /\ response = Http("none", 0, [detail |-> ""])
    /\ trace = Trace("none", "", << >>, "no", "no", NoText, FALSE)
    /\ history = [turns |-> 0, creates |-> 0, failures |-> 0, uuids |-> 0,
                  created |-> {}, removed |-> EmptyDict, retrieved |-> {},
                  saves |-> EmptyDict]
    /\ checked = Checked

\* The outcomes of an external call: it returns, or (failures left) it raises.
Outcomes == {"ok"} \cup (IF history.failures < MaxFailures THEN {"raised"} ELSE {})

Failed(outcome) == IF outcome = "raised" THEN 1 ELSE 0

\* save_session_transcript(session_id, session_data): the transcript written.
save_session_transcript(out, session_id, session_data) ==
    Put(out, session_id,
        [session_id |-> session_id,
         user_data |-> session_data.user_data,
         state |-> session_data.state,
         verified |-> session_data.verified,
         conversation_history |-> session_data.conversation_history])

\* One more call of save_session_transcript for the session in the count.
CountSave(saves, session_id) ==
    Put(saves, session_id, IF session_id \in DOMAIN saves THEN saves[session_id] + 1 ELSE 1)

\* text_to_speech as it would be if it wrote the tracked list anew.
TextToSpeechOverwrites(filename) ==
    /\ files' = files \cup {filename}
    /\ audio_files_to_cleanup' = << filename >>

\* text_to_speech as it would be if it did not track the file it writes.
TextToSpeechUntracked(filename) ==
    /\ files' = files \cup {filename}
    /\ UNCHANGED audio_files_to_cleanup

\* text_to_speech(text, session_id) when gTTS returns: the file is written and
\* its name is appended to the tracked list.
text_to_speech(filename) ==
    /\ files' = files \cup {filename}
    /\ audio_files_to_cleanup' = Append(audio_files_to_cleanup, filename)

(***************************************************************************)
(* POST /api/session/create                                                *)
(***************************************************************************)

\* create_session leaving a session that is stored under the identifier as it
\* is.
CreateSessionKeepsStored(requested, tts) ==
    /\ history.creates < MaxCreates
    /\ history.turns + history.creates < MaxRequests
    /\ history.creates < Len(GeneratedIds)
    /\ \E session_id \in {IF requested # "" THEN requested
                          ELSE GeneratedIds[history.creates + 1]} :
       \E filename \in {AudioFile(session_id, history.uuids + 1)} :
          /\ sessions' = IF session_id \in DOMAIN sessions THEN sessions
                         ELSE Put(sessions, session_id, NewSession)
          /\ IF tts = "ok"
             THEN /\ text_to_speech(filename)
                  /\ response' = Http("create_session", 200,
                                      AgentResponse(session_id, Greeting, filename,
                                                    "GREETING", << >>))
             ELSE /\ UNCHANGED << files, audio_files_to_cleanup >>
                  /\ response' = ServerError("create_session")
          /\ history' = [history EXCEPT
                            !.creates = @ + 1,
                            !.failures = @ + Failed(tts),
                            !.uuids = @ + 1,
                            !.created = IF tts = "ok" THEN @ \cup {filename} ELSE @,
                            !.saves = Put(@, session_id, 0)]
          /\ trace' = Trace("create_session", session_id, << >>, "no", tts, Greeting, FALSE)
    /\ UNCHANGED << tasks, output, checked >>

\* create_session(session_data) with session_data.session_id = requested ("":
\* none given, uuid4 names the session); gTTS ends as tts.  A session stored
\* under the same identifier is replaced.
create_session(requested, tts) ==
    /\ history.creates < MaxCreates
    /\ history.turns + history.creates < MaxRequests
    /\ history.creates < Len(GeneratedIds)
    /\ \E session_id \in {IF requested # "" THEN requested
                          ELSE GeneratedIds[history.creates + 1]} :
       \E filename \in {AudioFile(session_id, history.uuids + 1)} :
          /\ sessions' = Put(sessions, session_id, NewSession)
          /\ IF tts = "ok"
             THEN /\ text_to_speech(filename)
                  /\ response' = Http("create_session", 200,
                                      AgentResponse(session_id, Greeting, filename,
                                                    "GREETING", << >>))
             ELSE /\ UNCHANGED << files, audio_files_to_cleanup >>
                  /\ response' = ServerError("create_session")
          /\ history' = [history EXCEPT
                            !.creates = @ + 1,
                            !.failures = @ + Failed(tts),
                            !.uuids = @ + 1,
                            !.created = IF tts = "ok" THEN @ \cup {filename} ELSE @,
                            !.saves = Put(@, session_id, 0)]
          /\ trace' = Trace("create_session", session_id, << >>, "no", tts, Greeting, FALSE)
    /\ UNCHANGED << tasks, output, checked >>

(***************************************************************************)
(* POST /api/chat                                                          *)
(***************************************************************************)

\* chat for an unknown session as it would be if it opened the session.
ChatOpensSession(session_id, message) ==
    /\ history.turns + history.creates < MaxRequests
    /\ session_id \notin DOMAIN sessions
    /\ sessions' = Put(sessions, session_id, NewSession)
    /\ response' = NotFound("chat", "Session not found")
    /\ trace' = Trace("chat", session_id, message, "no", "no", NoText, FALSE)
    /\ history' = [history EXCEPT !.turns = @ + 1]
    /\ UNCHANGED << files, audio_files_to_cleanup, tasks, output, checked >>

\* chat(user_message) for a session that is not in the store: 404.
chat_not_found(session_id, message) ==
    /\ history.turns + history.creates < MaxRequests
    /\ session_id \notin DOMAIN sessions
    /\ response' = NotFound("chat", "Session not found")
    /\ trace' = Trace("chat", session_id, message, "no", "no", NoText, FALSE)
    /\ history' = [history EXCEPT !.turns = @ + 1]
    /\ UNCHANGED << sessions, files, audio_files_to_cleanup, tasks, output, checked >>

\* The session with one more entry in its conversation_history.
AppendHistory(session, role, content) ==
    [session EXCEPT !.conversation_history =
        Append(@, [role |-> role, content |-> content])]

\* chat(user_message) for a stored session; chat_response, if the state machine
\* calls it, ends as llm, and gTTS, if the handler gets that far, as tts.
chat(session_id, message, llm, tts) ==
    /\ history.turns + history.creates < MaxRequests
    /\ session_id \in DOMAIN sessions
    /\ \E user_input \in {Strip(message)} :
       \E out \in {StateMachine(AppendHistory(sessions[session_id], "user",
                                              Text(user_input)),
                                user_input, checked[user_input])} :
       \E response_text \in {IF out.delegate THEN GeneratedReply ELSE out.response_text} :
       \E after \in {AppendHistory(out.session, "assistant", response_text)} :
       \E filename \in {AudioFile(session_id, history.uuids + 1)} :
          IF out.raised \/ (out.delegate /\ llm = "raised")
          THEN \* int or chat_response raised: the handler ends where it stands
               /\ sessions' = [sessions EXCEPT ![session_id] = out.session]
               /\ response' = ServerError("chat")
               /\ trace' = Trace("chat", session_id, message,
                                 IF out.raised THEN "no" ELSE "raised", "no", NoText, FALSE)
               /\ history' = [history EXCEPT !.turns = @ + 1, !.failures = @ + 1]
               /\ UNCHANGED << files, audio_files_to_cleanup, output >>
          ELSE /\ sessions' = [sessions EXCEPT ![session_id] = after]
               /\ output' = IF after.state = "COMPLETED"
                            THEN save_session_transcript(output, session_id, after)
                            ELSE output
               /\ IF tts = "ok"
                  THEN /\ text_to_speech(filename)
                       /\ response' = Http("chat", 200,
                                           AgentResponse(session_id, response_text, filename,
                                                         after.state, out.suggestions))
                  ELSE /\ UNCHANGED << files, audio_files_to_cleanup >>
                       /\ response' = ServerError("chat")
               /\ trace' = Trace("chat", session_id, message, IF out.delegate THEN "ok" ELSE "no", tts,
                                 response_text, after.state = "COMPLETED")
               /\ history' = [history EXCEPT
                                 !.turns = @ + 1,
                                 !.failures = @ + Failed(tts),
                                 !.uuids = @ + 1,
                                 !.created = IF tts = "ok" THEN @ \cup {filename} ELSE @,
                                 !.saves = IF after.state = "COMPLETED"
                                           THEN CountSave(@, session_id) ELSE @]
    /\ UNCHANGED << tasks, checked >>

\* The specification of the dialogue: one caller-named session, created (and
\* created again) and talked to.
Next ==
    \/ \E id \in CallerIds : \E tts \in Outcomes : create_session(id, tts)
    \/ \E id \in CallerIds : \E m \in Utterances("GREETING") : chat_not_found(id, m)
    \/ \E id \in DOMAIN sessions : \E m \in Utterances(sessions[id].state) :
          \E llm \in Outcomes, tts \in Outcomes : chat(id, m, llm, tts)

Spec == Init /\ [][Next]_vars

(***************************************************************************)
(* The audio endpoints and the delayed clean-up task                       *)
(***************************************************************************)

\* get_audio without background_tasks.add_task: no task is pending.
AddTaskForgotten(t, filename) == t

\* One more, and one fewer, pending task for filename.
AddTask(t, filename) ==
    Put(t, filename, IF filename \in DOMAIN t THEN t[filename] + 1 ELSE 1)

DropTask(t, filename) ==
    IF t[filename] = 1 THEN [f \in (DOMAIN t) \ {filename} |-> t[f]]
    ELSE [t EXCEPT ![filename] = @ - 1]

RECURSIVE PendingTasks(_, _)
PendingTasks(t, S) == IF S = {} THEN 0
                      ELSE LET f == CHOOSE x \in S : TRUE
                           IN  t[f] + PendingTasks(t, S \ {f})

\* The file names a caller can ask for: those the service has handed out.
Requestable == history.created

\* GET /api/audio/{filename}: get_audio serves the file and schedules
\* delayed_cleanup_audio(file_path, 30) as a background task; 404 without the file.
get_audio(filename) ==
    /\ filename \in Requestable
    /\ IF filename \notin files
       THEN /\ response' = NotFound("get_audio", "Audio file not found")
            /\ UNCHANGED << tasks, history >>
       ELSE /\ PendingTasks(tasks, DOMAIN tasks) < MaxTasks
            /\ tasks' = AddTask(tasks, filename)
            /\ response' = Http("get_audio", 200, [file |-> filename])
            /\ history' = [history EXCEPT !.retrieved = @ \cup {filename}]
    /\ trace' = AudioTrace("get_audio", filename, filename \in files)
    /\ UNCHANGED << sessions, files, audio_files_to_cleanup, output, checked >>

\* The three variables cleanup_audio_file works on, after it.
Cleaned(r) ==
    /\ files' = r.files
    /\ audio_files_to_cleanup' = r.tracked
    /\ history' = [history EXCEPT !.removed = r.removed]

\* delayed_cleanup_audio(filename, 30), its sleep over: cleanup_audio_file.
delayed_cleanup_audio(filename) ==
    /\ filename \in DOMAIN tasks
    /\ tasks' = DropTask(tasks, filename)
    /\ Cleaned(cleanup_audio_file(files, audio_files_to_cleanup, history.removed, filename))
    /\ trace' = AudioTrace("delayed_cleanup_audio", filename, filename \in files)
    /\ UNCHANGED << sessions, output, response, checked >>

\* DELETE /api/audio/{filename}: delete_audio.
delete_audio(filename) ==
    /\ filename \in Requestable
    /\ Cleaned(cleanup_audio_file(files, audio_files_to_cleanup, history.removed, filename))
    /\ response' = Http("delete_audio", 200, [message |-> "Audio file deleted"])
    /\ trace' = AudioTrace("delete_audio", filename, filename \in files)
    /\ UNCHANGED << sessions, tasks, output, checked >>

\* POST /api/cleanup/audio: cleanup_audio.
cleanup_audio ==
    /\ \E r \in {cleanup_old_audio_files(files, audio_files_to_cleanup, history.removed)} :
          /\ Cleaned(r)
          /\ response' = Http("cleanup_audio", 200, [remaining_files |-> Len(r.tracked)])
    /\ trace' = AudioTrace("cleanup_audio", NoFile, files # {})
    /\ UNCHANGED << sessions, tasks, output, checked >>

\* The specification of the audio files: sessions are created (each greeting
\* is synthesized to a file), files are served, deleted and swept, and the
\* delayed tasks run.
AudioNext ==
    \/ \E tts \in Outcomes : create_session("", tts)
    \/ \E f \in Requestable : get_audio(f)
    \/ \E f \in DOMAIN tasks : delayed_cleanup_audio(f)
    \/ \E f \in Requestable : delete_audio(f)
    \/ cleanup_audio

AudioSpec == Init /\ [][AudioNext]_vars

\* The file names text_to_speech can produce under AudioNext: the n-th file
\* is the greeting of the n-th session created.
AudioFiles ==
    {AudioFile(GeneratedIds[n], n) : n \in {i \in DOMAIN GeneratedIds : i <= MaxCreates}}

\* The event loop runs every task whose sleep is over.
AudioFairSpec ==
    AudioSpec /\ \A f \in AudioFiles : WF_vars(delayed_cleanup_audio(f))
(***************************************************************************)
(* The other endpoints, and the service as a whole                         *)
(***************************************************************************)

\* GET /api/session/{session_id}: get_session.
get_session(session_id) ==
    /\ response' = IF session_id \in DOMAIN sessions
                   THEN Http("get_session", 200, sessions[session_id])
                   ELSE NotFound("get_session", "Session not found")
    /\ trace' = Trace("get_session", session_id, << >>, "no", "no", NoText, FALSE)
    /\ UNCHANGED << sessions, files, audio_files_to_cleanup, tasks, output, history, checked >>

\* POST /api/session/{session_id}/save: save_session.
save_session(session_id) ==
    /\ IF session_id \in DOMAIN sessions
       THEN /\ output' = save_session_transcript(output, session_id, sessions[session_id])
            /\ response' = Http("save_session", 200, [session_id |-> session_id])
       ELSE /\ UNCHANGED output
            /\ response' = NotFound("save_session", "Session not found")
    /\ trace' = Trace("save_session", session_id, << >>, "no", "no", NoText,
                      session_id \in DOMAIN sessions)
    /\ UNCHANGED << sessions, files, audio_files_to_cleanup, tasks, history, checked >>

\* GET /api/companies: get_companies.
get_companies ==
    /\ response' = Http("get_companies", 200, [companies |-> company_list])
    /\ trace' = Trace("get_companies", "", << >>, "no", "no", NoText, FALSE)
    /\ UNCHANGED << sessions, files, audio_files_to_cleanup, tasks, output, history, checked >>

\* The session identifiers a caller can name: the caller's own and those uuid4
\* has given out.
KnownIds == CallerIds \cup {GeneratedIds[n] : n \in 1..history.creates}

\* The specification of the session store: every endpoint that names a
\* session, and the directory, for two callers (one naming its session, one
\* not).
StoreNext ==
    \/ /\ history.turns + history.creates < MaxInterleaved
       /\ \E requested \in CallerIds \cup {""} : create_session(requested, "ok")
    \/ /\ history.turns + history.creates < MaxInterleaved
       /\ \E id \in DOMAIN sessions : \E m \in ServiceUtterances : chat(id, m, "ok", "ok")
    \/ /\ history.turns + history.creates < MaxInterleaved
       /\ \E id \in KnownIds : \E m \in ServiceUtterances : chat_not_found(id, m)
    \/ \E id \in KnownIds : get_session(id)
    \/ \E id \in KnownIds : save_session(id)
    \/ get_companies

StoreSpec == Init /\ [][StoreNext]_vars

\* The specification of the service under concurrent use: sessions are
\* created and talked to by two callers while files are served, deleted and
\* swept and the delayed tasks run, in any order.  Each handler runs to its
\* end on the event loop before the next starts.
\* The specification of the dialogue of one caller whose answers are at and
\* beyond the limits of the validators and of the list of candidates.
EdgeNext ==
    \/ create_session("s1", "ok")
    \/ \E id \in DOMAIN sessions : \E m \in EdgeUtterances(sessions[id].state) :
          chat(id, m, "ok", "ok")

EdgeSpec == Init /\ [][EdgeNext]_vars

\* The file of the most recent reply: the one a caller is about to play.
LatestFiles == {f \in history.created : \A g \in history.created : g[2] <= f[2]}

ConcurrentNext ==
    \/ /\ history.turns + history.creates < MaxConcurrent
       /\ create_session("", "ok")
    \/ /\ history.turns + history.creates < MaxConcurrent
       /\ \E id \in DOMAIN sessions : \E m \in ConcurrentUtterances : chat(id, m, "ok", "ok")
    \/ \E f \in LatestFiles : get_audio(f)
    \/ \E f \in DOMAIN tasks : delayed_cleanup_audio(f)
    \/ \E f \in LatestFiles : delete_audio(f)
    \/ cleanup_audio

ConcurrentSpec == Init /\ [][ConcurrentNext]_vars

\* The specification of the artifacts: sessions are created and talked to,
\* with gTTS working or not, while files are served, deleted and swept and
\* the delayed tasks run.
ArtifactNext ==
    \/ /\ history.turns + history.creates < MaxConcurrent
       /\ \E tts \in Outcomes : create_session("", tts)
    \/ /\ history.turns + history.creates < MaxConcurrent
       /\ \E id \in DOMAIN sessions : \E m \in ConcurrentUtterances :
             \E tts \in Outcomes : chat(id, m, "ok", tts)
    \/ \E f \in LatestFiles : get_audio(f)
    \/ \E f \in DOMAIN tasks : delayed_cleanup_audio(f)
    \/ \E f \in LatestFiles : delete_audio(f)
    \/ cleanup_audio

ArtifactSpec == Init /\ [][ArtifactNext]_vars

\* The specification of the matcher: a list of companies and a name are
\* given, and suggest_company_matches answers.
MatcherInit ==
    /\ sessions = EmptyDict
    /\ files = {}
    /\ audio_files_to_cleanup = << >>
    /\ tasks = EmptyDict
    /\ output = EmptyDict
    /\ response = Http("none", 0, [detail |-> ""])
    /\ \E directory \in Directories : \E user_input \in MatcherInputs :
          trace = [op |-> "asked", input |-> user_input, directory |-> directory]
    /\ history = [turns |-> 0, creates |-> 0, failures |-> 0, uuids |-> 0,
                  created |-> {}, removed |-> EmptyDict, retrieved |-> {},
                  saves |-> EmptyDict]
    /\ checked = EmptyDict

MatcherNext ==
    /\ trace.op = "asked"
    /\ response' = Http("suggest_company_matches", 200,
                        [matches |-> SuggestFrom(trace.directory, trace.input)])
    /\ trace' = [trace EXCEPT !.op = "suggest_company_matches"]
    /\ UNCHANGED << sessions, files, audio_files_to_cleanup, tasks, output, history, checked >>

MatcherSpec == MatcherInit /\ [][MatcherNext]_vars

(***************************************************************************)
(* Properties of the dialogue (checked under Spec)                         *)
(***************************************************************************)

\* The edges of the transition graph.
Edges ==
    {<< "GREETING", "COLLECTING_EXPERIENCE" >>,
     << "COLLECTING_EXPERIENCE", "COLLECTING_DOB" >>,
     << "COLLECTING_DOB", "COLLECTING_EMAIL" >>,
     << "COLLECTING_EMAIL", "VERIFYING_EMPLOYMENT" >>,
     << "COLLECTING_EMAIL", "ASKING_COMPANY" >>,
     << "VERIFYING_EMPLOYMENT", "COMPLETED" >>,
     << "VERIFYING_EMPLOYMENT", "ASKING_COMPANY" >>,
     << "ASKING_COMPANY", "SELECTING_COMPANY" >>,
     << "ASKING_COMPANY", "COMPLETED" >>,
     << "SELECTING_COMPANY", "COMPLETED" >>,
     << "SELECTING_COMPANY", "CONFIRMING_UNKNOWN_COMPANY" >>,
     << "CONFIRMING_UNKNOWN_COMPANY", "COMPLETED" >>,
     << "CONFIRMING_UNKNOWN_COMPANY", "SELECTING_COMPANY" >>}

RequiredFields == {"name", "years_of_experience", "date_of_birth", "email"}

\* This step is chat processing a turn of the stored session id.
Turn(id) == trace'.op = "chat" /\ trace'.session_id = id /\ id \in DOMAIN sessions

\* The four collection states, the retry counter and the user_data key of
\* each, and the validator's verdict in each on the input of this step.
CollectionStates ==
    {"GREETING", "COLLECTING_EXPERIENCE", "COLLECTING_DOB", "COLLECTING_EMAIL"}

CounterOf(state) ==
    CASE state = "GREETING" -> "name"
      [] state = "COLLECTING_EXPERIENCE" -> "experience"
      [] state = "COLLECTING_DOB" -> "dob"
      [] state = "COLLECTING_EMAIL" -> "email"

KeyOf(state) ==
    CASE state = "GREETING" -> "name"
      [] state = "COLLECTING_EXPERIENCE" -> "years_of_experience"
      [] state = "COLLECTING_DOB" -> "date_of_birth"
      [] state = "COLLECTING_EMAIL" -> "email"

VerdictIn(state, user_input) ==
    CASE state = "GREETING" -> checked[user_input].name
      [] state = "COLLECTING_EXPERIENCE" -> checked[user_input].experience
      [] state = "COLLECTING_DOB" -> checked[user_input].dob
      [] state = "COLLECTING_EMAIL" -> checked[user_input].email

\* The value an accepted input leaves in user_data.
ValueIn(state, user_input) ==
    CASE state = "GREETING" -> user_input
      [] state = "COLLECTING_EXPERIENCE" -> checked[user_input].experience.years
      [] state = "COLLECTING_DOB" -> user_input
      [] state = "COLLECTING_EMAIL" -> Lower(user_input)

\* This step is a turn of session id in a collection state whose input the
\* state's validator rejects, or accepts.
Rejects(id) ==
    /\ Turn(id)
    /\ sessions[id].state \in CollectionStates
    /\ ~VerdictIn(sessions[id].state, Strip(trace'.input)).is_valid

Accepts(id) ==
    /\ Turn(id)
    /\ sessions[id].state \in CollectionStates
    /\ VerdictIn(sessions[id].state, Strip(trace'.input)).is_valid

\* C1 (as claimed): every change of the state of a stored session, over
\* create-session and submit-turn steps, follows an edge of the transition
\* graph, and a session is COMPLETED only with name, experience, date of birth
\* and email stored.
C1_StateMovesForward ==
    /\ [][\A id \in DOMAIN sessions :
             sessions'[id].state # sessions[id].state
             => << sessions[id].state, sessions'[id].state >> \in Edges]_vars
    /\ [](\A id \in DOMAIN sessions :
             sessions[id].state = "COMPLETED"
             => RequiredFields \subseteq DOMAIN sessions[id].user_data)

\* C1 (what the turns do): every change of state made by a submit-turn step
\* follows an edge, and COMPLETED is reached only with the four fields stored.
C1_TurnsFollowEdges ==
    /\ [][\A id \in DOMAIN sessions :
             Turn(id) /\ sessions'[id].state # sessions[id].state
             => << sessions[id].state, sessions'[id].state >> \in Edges]_vars
    /\ [](\A id \in DOMAIN sessions :
             sessions[id].state = "COMPLETED"
             => RequiredFields \subseteq DOMAIN sessions[id].user_data)

\* C2: a rejected input in a collection state adds one to the field's retry
\* counter and leaves the state; below 3 the reply is the validator's message
\* and chat_response is not called, from 3 on the reply is chat_response's.
C2_RejectedInput ==
    [][\A id \in DOMAIN sessions :
          Rejects(id) =>
             LET state == sessions[id].state
                 count == sessions[id].retry_counts[CounterOf(state)] + 1
             IN  /\ sessions'[id].retry_counts[CounterOf(state)] = count
                 /\ sessions'[id].state = state
                 /\ IF count < 3
                    THEN /\ trace'.llm = "no"
                         /\ trace'.reply = VerdictIn(state, Strip(trace'.input)).error_msg
                    ELSE /\ trace'.llm # "no"
                         /\ trace'.llm = "ok" => trace'.reply = GeneratedReply]_vars

\* The third date of birth in a row is rejected: chat_response answers and the
\* session stays in COLLECTING_DOB.
C2_Witness ==
    /\ trace.op = "chat"
    /\ trace.session_id \in DOMAIN sessions
    /\ sessions[trace.session_id].state = "COLLECTING_DOB"
    /\ sessions[trace.session_id].retry_counts.dob = 3
    /\ trace.llm = "ok"
    /\ response.status = 200
    /\ response.body.message = GeneratedReply

\* C3: an accepted input in a collection state is stored, its retry counter is
\* 0 after the turn and the state is the next one; and no rejection answered
\* by the validator's message leaves the counter at 3 or more.
C3_AcceptedInput ==
    [][\A id \in DOMAIN sessions :
          /\ Accepts(id) =>
                LET state == sessions[id].state
                    after == sessions'[id]
                IN  /\ KeyOf(state) \in DOMAIN after.user_data
                    /\ after.user_data[KeyOf(state)] = ValueIn(state, Strip(trace'.input))
                    /\ after.retry_counts[CounterOf(state)] = 0
                    /\ after.state # state
                    /\ << state, after.state >> \in Edges
          /\ Rejects(id) /\ trace'.llm = "no" =>
                sessions'[id].retry_counts[CounterOf(sessions[id].state)] < 3]_vars

\* "7" is accepted after "about ten" was rejected: the experience counter is
\* back at 0 in COLLECTING_DOB.
C3_Witness ==
    /\ trace.op = "chat"
    /\ trace.session_id \in DOMAIN sessions
    /\ LET session == sessions[trace.session_id]
       IN  /\ session.state = "COLLECTING_DOB"
           /\ Len(session.conversation_history) = 7
           /\ session.conversation_history[4].content
                 = Text(<< "a", "b", "o", "u", "t", " ", "t", "e", "n" >>)
           /\ session.retry_counts.experience = 0
           /\ session.user_data["years_of_experience"] = 7
\* C4 (as claimed): when chat_response raises during a turn, the turn ends in
\* an error and the stored session is exactly as it was before the turn.
C4_FailedFallbackLeavesSession ==
    [][\A id \in DOMAIN sessions :
          Turn(id) /\ trace'.llm = "raised"
          => response'.status >= 400 /\ sessions'[id] = sessions[id]]_vars

\* C5 (as claimed): when gTTS raises on the reply of a turn or on the greeting
\* of create_session, the response still carries the reply text.
C5_TextSurvivesSpeechFailure ==
    (trace.op \in {"chat", "create_session"} /\ trace.tts = "raised")
    => ("message" \in DOMAIN response.body /\ response.body.message = trace.reply)

\* C6 (as claimed): a turn calls save_session_transcript exactly when it moves
\* the session into COMPLETED, so once per session and on no later turn.
C6_TranscriptSavedOnce ==
    [][\A id \in DOMAIN sessions :
          Turn(id)
          => (trace'.saved <=> (sessions[id].state # "COMPLETED"
                                /\ sessions'[id].state = "COMPLETED"))]_vars

\* C7: a turn of a session in COMPLETED leaves its state, its user_data and
\* its verified flag as they are.
C7_CompletedIsTerminal ==
    [][\A id \in DOMAIN sessions :
          Turn(id) /\ sessions[id].state = "COMPLETED"
          => /\ sessions'[id].state = "COMPLETED"
             /\ sessions'[id].user_data = sessions[id].user_data
             /\ sessions'[id].verified = sessions[id].verified]_vars

\* A turn was processed in COMPLETED (only there does a session in COMPLETED
\* get its reply from chat_response) and answered.
C7_Witness ==
    /\ trace.op = "chat"
    /\ trace.session_id \in DOMAIN sessions
    /\ sessions[trace.session_id].state = "COMPLETED"
    /\ trace.llm = "ok"
    /\ response.status = 200
    /\ history.saves[trace.session_id] >= 2
(***************************************************************************)
(* Properties of the audio files (checked under AudioSpec, AudioFairSpec)  *)
(***************************************************************************)

\* How often name occurs in the list.
Occurrences(lst, name) == Cardinality({i \in 1..Len(lst) : lst[i] = name})

\* How often os.remove has removed the file.
Removals(filename) ==
    IF filename \in DOMAIN history.removed THEN history.removed[filename] ELSE 0

\* C8: every file text_to_speech has created either exists and is on the
\* tracked list, never removed, or has been removed exactly once and is off the
\* list.
C8_DeletedOnceOrTracked ==
    \A f \in history.created :
       \/ /\ f \in files
          /\ Occurrences(audio_files_to_cleanup, f) = 1
          /\ Removals(f) = 0
       \/ /\ f \notin files
          /\ Occurrences(audio_files_to_cleanup, f) = 0
          /\ Removals(f) = 1

\* One created file has been removed and another is still there, after a
\* request to delete a file that was already gone.
C8_Witness ==
    /\ \E f \in history.created : f \notin files /\ Removals(f) = 1
    /\ \E g \in history.created : g \in files
    /\ trace.op = "delete_audio"
    /\ ~trace.existed

\* C9: delete_audio, or the delayed task, on a file that has been removed
\* before changes neither the directory nor the tracked list, removes nothing
\* again, and delete_audio answers 200.
C9_SecondDeletionIsNoOp ==
    [][(/\ trace'.op \in {"delete_audio", "delayed_cleanup_audio"}
        /\ trace'.input \in DOMAIN history.removed)
       => /\ files' = files
          /\ audio_files_to_cleanup' = audio_files_to_cleanup
          /\ history'.removed = history.removed
          /\ trace'.op = "delete_audio" => response'.status = 200]_vars

\* The delayed task ran for a file that had been removed before it (by
\* delete_audio or cleanup_audio), and found it gone.
C9_Witness ==
    /\ trace.op = "delayed_cleanup_audio"
    /\ ~trace.existed
    /\ Removals(trace.input) = 1
    /\ trace.input \in history.retrieved

WritesSession(id) ==
    /\ trace'.op \in {"create_session", "chat"}
    /\ trace'.session_id = id

\* The tracked list without the entries the step was to drop: every entry for
\* cleanup_audio, the named file for delete_audio and the delayed task.
Kept(tracked) ==
    IF trace'.op = "cleanup_audio" THEN << >>
    ELSE IF trace'.op \in {"delete_audio", "delayed_cleanup_audio"}
    THEN SelectSeq(tracked, LAMBDA g : g # trace'.input)
    ELSE tracked

C12_AbsentIsSuccess ==
    (trace.op \in {"get_audio", "delete_audio"} /\ ~trace.existed)
    => response.status = 200

\* C12, amended: delete_audio for a file that has been removed answers 200;
\* get_audio for such a file answers 404 and schedules no task; neither
\* changes the directory, the tracked list or the removals.
C12_AbsentDeleteSucceedsGetIsNotFound ==
    [][(/\ trace'.op \in {"get_audio", "delete_audio"}
        /\ ~trace'.existed)
       => /\ response'.status = IF trace'.op = "get_audio" THEN 404 ELSE 200
          /\ tasks' = tasks
          /\ files' = files
          /\ audio_files_to_cleanup' = audio_files_to_cleanup
          /\ history'.removed = history.removed]_vars

\* get_audio was asked for a file that had been served before and removed
\* since, and answered 404.
C12_Witness ==
    /\ trace.op = "get_audio"
    /\ ~trace.existed
    /\ trace.input \in history.retrieved
    /\ Removals(trace.input) = 1
    /\ response.status = 404

(***************************************************************************)
(* Properties of the session store (checked under StoreSpec)               *)
(***************************************************************************)

\* C13: a stored session is changed by turns only: every step that is not a
\* turn of a session leaves that session as it was, and no step takes a
\* session out of the store.
C13_OnlyTurnsMutate ==
    [][\A id \in DOMAIN sessions :
          /\ id \in DOMAIN sessions'
          /\ ~Turn(id) => sessions'[id] = sessions[id]]_vars

\* The same for every step but create_session: get_session, save_session,
\* get_companies, the 404 of chat and the turns of other sessions leave a
\* stored session as it was.
C13_AllButCreateLeaveSessions ==
    [][\A id \in DOMAIN sessions :
          /\ id \in DOMAIN sessions'
          /\ (~Turn(id) /\ trace'.op # "create_session")
             => sessions'[id] = sessions[id]]_vars

(***************************************************************************)
(* The employment branches of the dialogue (checked under Spec)            *)
(***************************************************************************)

\* This step is a turn of session id taken in the given state.
TurnIn(id, state) == Turn(id) /\ sessions[id].state = state

\* The company recorded for a session is that name.
Recorded(session, name) ==
    /\ "company_name" \in DOMAIN session.user_data
    /\ session.user_data["company_name"] = name

\* The first ten entries of the directory, or all of it if it is shorter.
DirectoryHead ==
    SubSeq(company_list, 1, IF Len(company_list) < 10 THEN Len(company_list) ELSE 10)

\* C14: a turn in ASKING_COMPANY ends in COMPLETED only if the input is an
\* entry of company_list, which is then the company recorded, with verified
\* set; every input that is no entry ends in SELECTING_COMPANY with a
\* non-empty company_matches (the first ten entries when the input asks for
\* the list or has no close match, the close matches otherwise) and no company
\* recorded.
C14_AskingCompany ==
    [][\A id \in DOMAIN sessions :
          TurnIn(id, "ASKING_COMPANY") =>
             \E u \in {Strip(trace'.input)} : \E after \in {sessions'[id]} :
                /\ after.state \in {"COMPLETED", "SELECTING_COMPANY"}
                /\ after.state = "COMPLETED"
                   => /\ \E i \in DOMAIN company_list : company_list[i] = u
                      /\ Recorded(after, u)
                      /\ after.verified
                /\ (\A i \in DOMAIN company_list : company_list[i] # u)
                   => after.state = "SELECTING_COMPANY"
                /\ after.state = "SELECTING_COMPANY"
                   => /\ "company_name" \notin DOMAIN after.user_data
                      /\ after.user_data["company_matches"] # << >>
                      /\ after.user_data["company_matches"] =
                            IF AsksForList(u) \/ checked[u].matches = << >>
                            THEN DirectoryHead
                            ELSE checked[u].matches]_vars

\* "Globl Solutions" is on no list but close to an entry: the session is in
\* SELECTING_COMPANY with the close matches, which are not the first ten
\* entries, and no company recorded.
C14_Witness ==
    /\ trace.op = "chat"
    /\ trace.input = << "G", "l", "o", "b", "l", " ", "S", "o", "l", "u", "t", "i", "o", "n", "s" >>
    /\ trace.session_id \in DOMAIN sessions
    /\ \E session \in {sessions[trace.session_id]} :
          /\ session.state = "SELECTING_COMPANY"
          /\ session.user_data["company_matches"] = checked[trace.input].matches
          /\ session.user_data["company_matches"] # DirectoryHead
          /\ "company_name" \notin DOMAIN session.user_data

\* C16: a turn in VERIFYING_EMPLOYMENT with one of the affirmative answers
\* ends in COMPLETED with verified set, with one of the negative answers in
\* ASKING_COMPANY, and with any other input chat_response is called and the
\* state, user_data and verified are as before.
C16_VerifyingEmployment ==
    [][\A id \in DOMAIN sessions :
          TurnIn(id, "VERIFYING_EMPLOYMENT") =>
             \E u \in {Lower(Strip(trace'.input))} : \E after \in {sessions'[id]} :
                IF u \in VerifyYes
                THEN after.state = "COMPLETED" /\ after.verified
                ELSE IF u \in VerifyNo
                THEN after.state = "ASKING_COMPANY" /\ ~after.verified
                ELSE /\ trace'.llm # "no"
                     /\ after.state = "VERIFYING_EMPLOYMENT"
                     /\ after.user_data = sessions[id].user_data
                     /\ after.retry_counts = sessions[id].retry_counts
                     /\ after.verified = sessions[id].verified]_vars

\* "maybe" in VERIFYING_EMPLOYMENT: chat_response answered and the session
\* is where it was.
C16_Witness ==
    /\ trace.op = "chat"
    /\ trace.input = << "m", "a", "y", "b", "e" >>
    /\ trace.llm = "ok"
    /\ trace.session_id \in DOMAIN sessions
    /\ sessions[trace.session_id].state = "VERIFYING_EMPLOYMENT"
    /\ ~sessions[trace.session_id].verified
    /\ response.status = 200
    /\ response.body.message = GeneratedReply

\* C17: a turn in CONFIRMING_UNKNOWN_COMPANY with one of the confirming
\* answers records the pending company name and ends in COMPLETED with
\* verified set; with any other input it ends in SELECTING_COMPANY with the
\* first ten entries of the directory as company_matches and no company
\* recorded.
C17_ConfirmingUnknownCompany ==
    [][\A id \in DOMAIN sessions :
          TurnIn(id, "CONFIRMING_UNKNOWN_COMPANY") =>
             \E u \in {Lower(Strip(trace'.input))} : \E after \in {sessions'[id]} :
                IF u \in ConfirmYes
                THEN /\ after.state = "COMPLETED"
                     /\ after.verified
                     /\ Recorded(after, sessions[id].user_data["pending_company_name"])
                ELSE /\ after.state = "SELECTING_COMPANY"
                     /\ ~after.verified
                     /\ after.user_data["company_matches"] = DirectoryHead
                     /\ "company_name" \notin DOMAIN after.user_data]_vars

\* "yes" after "Zzyzx" was found on no list: the session is COMPLETED with
\* Zzyzx recorded.
C17_Witness ==
    /\ trace.op = "chat"
    /\ trace.input = << "y", "e", "s" >>
    /\ trace.session_id \in DOMAIN sessions
    /\ \E session \in {sessions[trace.session_id]} :
          /\ session.state = "COMPLETED"
          /\ session.verified
          /\ "pending_company_name" \in DOMAIN session.user_data
          /\ Recorded(session, << "Z", "z", "y", "z", "x" >>)

\* C18: the verified flag of a stored session is set exactly when the session
\* is COMPLETED.
C18_VerifiedIffCompleted ==
    \A id \in DOMAIN sessions :
       sessions[id].verified <=> sessions[id].state = "COMPLETED"

\* A session that went through VERIFYING_EMPLOYMENT is COMPLETED and verified
\* with its four fields stored, and the company never asked for.
C18_Witness ==
    /\ trace.op = "chat"
    /\ Lower(trace.input) \in VerifyYes
    /\ trace.session_id \in DOMAIN sessions
    /\ \E session \in {sessions[trace.session_id]} :
          /\ session.state = "COMPLETED"
          /\ session.verified
          /\ RequiredFields \subseteq DOMAIN session.user_data
          /\ "company_matches" \notin DOMAIN session.user_data

(***************************************************************************)
(* Answers at the limits (checked under EdgeSpec)                          *)
(***************************************************************************)

\* What the manual entry of a company name does to a session in
\* SELECTING_COMPANY: an entry of company_list is recorded and the session
\* COMPLETED; a name with close matches replaces company_matches by them; any
\* other name is kept as pending_company_name in CONFIRMING_UNKNOWN_COMPANY.
ManualEntry(before, after, u) ==
    IF \E i \in DOMAIN company_list : company_list[i] = u
    THEN after.state = "COMPLETED" /\ after.verified /\ Recorded(after, u)
    ELSE /\ "company_name" \notin DOMAIN after.user_data
         /\ ~after.verified
         /\ IF checked[u].matches # << >>
            THEN /\ after.state = "SELECTING_COMPANY"
                 /\ after.user_data["company_matches"] = checked[u].matches
            ELSE /\ after.state = "CONFIRMING_UNKNOWN_COMPANY"
                 /\ after.user_data["pending_company_name"] = u
                 /\ after.user_data["company_matches"] = before.user_data["company_matches"]

\* What the turn of a session in SELECTING_COMPANY does with the number n, or
\* with an input that is no number: n from 1 to the length of company_matches
\* selects that candidate, everything else is a manual entry.
Selection(before, after, u, is_number, n) ==
    IF is_number /\ 1 <= n /\ n <= Len(before.user_data["company_matches"])
    THEN /\ after.state = "COMPLETED"
         /\ after.verified
         /\ Recorded(after, before.user_data["company_matches"][n])
    ELSE ManualEntry(before, after, u)

\* C15: a turn in SELECTING_COMPANY whose input is all digits raises no error;
\* it selects the n-th of company_matches, COMPLETED and verified, if and only
\* if the input is a number n from 1 to their length, and handles every other
\* such input, 0 included, as the manual entry of a name.
C15_SelectingByNumber ==
    [][\A id \in DOMAIN sessions :
          (TurnIn(id, "SELECTING_COMPANY") /\ IsDigitStr(Strip(trace'.input))) =>
             \E u \in {Strip(trace'.input)} :
                /\ response'.status = 200
                /\ Selection(sessions[id], sessions'[id], u, ~IntRaises(u),
                             IF IntRaises(u) THEN 0 ELSE ParseInt(u))]_vars

\* The same for every input that int can read, and for every input that is
\* not all digits: no error, a selection for the numbers in range, a manual
\* entry otherwise.
C15_DecimalNumbersAndNames ==
    [][\A id \in DOMAIN sessions :
          (/\ TurnIn(id, "SELECTING_COMPANY")
           /\ ~(IsDigitStr(Strip(trace'.input)) /\ IntRaises(Strip(trace'.input)))) =>
             \E u \in {Strip(trace'.input)} :
                /\ response'.status = 200
                /\ Selection(sessions[id], sessions'[id], u, IsDigitStr(u),
                             IF IsDigitStr(u) THEN ParseInt(u) ELSE 0)]_vars

\* The number the first run of digits of the input stands for, -1 without one.
FirstNumber(u) ==
    IF FindAllDigits(Lower(u), 1) = << >> THEN -1
    ELSE ParseInt(FindAllDigits(Lower(u), 1)[1])

AgeGiven(u) == IF ParseDate(u) = << >> THEN -1 ELSE AgeOn(Today, ParseDate(u))

\* The turn of session id leaves the date of birth unstored: one more
\* rejection counted, the state and user_data as before.
DobRejected(id) ==
    /\ sessions'[id].user_data = sessions[id].user_data
    /\ sessions'[id].retry_counts.dob = sessions[id].retry_counts.dob + 1
    /\ sessions'[id].state = "COLLECTING_DOB"

Candidates(session) ==
    IF "company_matches" \in DOMAIN session.user_data
    THEN session.user_data["company_matches"] ELSE << >>

\* C21 (as claimed): a stored session has candidates only in
\* SELECTING_COMPANY; in every other state company_matches is absent or empty.
C21_CandidatesOnlyWhileSelecting ==
    \A id \in DOMAIN sessions :
       sessions[id].state # "SELECTING_COMPANY" => Candidates(sessions[id]) = << >>

\* C21, amended: company_matches is absent in the states before
\* SELECTING_COMPANY, present in SELECTING_COMPANY and
\* CONFIRMING_UNKNOWN_COMPANY, never empty when present, and no turn takes it
\* out of user_data: it is replaced by new candidates or left as it is.
C21_CandidatesStayAfterSelecting ==
    /\ [](\A id \in DOMAIN sessions :
             /\ "company_matches" \in DOMAIN sessions[id].user_data
                => Candidates(sessions[id]) # << >>
             /\ sessions[id].state \in {"GREETING", "COLLECTING_EXPERIENCE", "COLLECTING_DOB",
                                        "COLLECTING_EMAIL", "VERIFYING_EMPLOYMENT",
                                        "ASKING_COMPANY"}
                => "company_matches" \notin DOMAIN sessions[id].user_data
             /\ sessions[id].state \in {"SELECTING_COMPANY", "CONFIRMING_UNKNOWN_COMPANY"}
                => "company_matches" \in DOMAIN sessions[id].user_data)
    /\ [][\A id \in DOMAIN sessions :
             (Turn(id) /\ "company_matches" \in DOMAIN sessions[id].user_data)
             => /\ "company_matches" \in DOMAIN sessions'[id].user_data
                /\ \/ Candidates(sessions'[id]) = Candidates(sessions[id])
                   \/ /\ sessions'[id].state = "SELECTING_COMPANY"
                      /\ response'.status = 200
                         => Candidates(sessions'[id]) = response'.body.suggestions]_vars

\* A session COMPLETED through CONFIRMING_UNKNOWN_COMPANY still holds the
\* candidates it was offered before.
C21_Witness ==
    /\ trace.op = "chat"
    /\ trace.session_id \in DOMAIN sessions
    /\ \E session \in {sessions[trace.session_id]} :
          /\ session.state = "COMPLETED"
          /\ "pending_company_name" \in DOMAIN session.user_data
          /\ Candidates(session) # << >>

\* The place of a state in the order of the dialogue: the four collection
\* states in turn, and every state after them.
Rank(state) ==
    CASE state = "GREETING" -> 1
      [] state = "COLLECTING_EXPERIENCE" -> 2
      [] state = "COLLECTING_DOB" -> 3
      [] state = "COLLECTING_EMAIL" -> 4
      [] OTHER -> 5

\* C22: a retry counter grows only by a turn taken in the state that collects
\* its field; a turn leaves the counters of all other fields as they are; and
\* no step changes the counter of a field whose state the session has passed.
C22_CountersKeepToTheirState ==
    [][\A id \in DOMAIN sessions : \A st \in CollectionStates :
          \E before \in {sessions[id].retry_counts[CounterOf(st)]} :
          \E after \in {sessions'[id].retry_counts[CounterOf(st)]} :
             /\ after > before => Turn(id) /\ sessions[id].state = st
             /\ (Turn(id) /\ sessions[id].state # st) => after = before
             /\ Rank(sessions[id].state) > Rank(st) => after = before]_vars

\* The second e-mail address in a row was rejected: the email counter is at
\* 2, the counters of the fields collected before are at 0, where their
\* acceptance left them after a rejected name.
C22_Witness ==
    /\ trace.op = "chat"
    /\ trace.session_id \in DOMAIN sessions
    /\ \E session \in {sessions[trace.session_id]} :
          /\ session.state = "COLLECTING_EMAIL"
          /\ session.retry_counts.email = 2
          /\ session.retry_counts.name = 0
          /\ session.retry_counts.experience = 0
          /\ session.retry_counts.dob = 0
          /\ session.conversation_history[2].content = Text(<< "B", "o", "b" >>)

(***************************************************************************)
(* Properties of the artifacts (checked under ArtifactSpec)                *)
(***************************************************************************)

\* The step takes file f out of the directory or off the tracked list by
\* right: it is delete_audio for f, cleanup_audio, or the delayed task of f,
\* which get_audio has served.
RemovedOnRequest(f) ==
    \/ trace'.op = "cleanup_audio"
    \/ trace'.op = "delete_audio" /\ trace'.input = f
    \/ /\ trace'.op = "delayed_cleanup_audio"
       /\ trace'.input = f
       /\ f \in history.retrieved

\* C23: a create_session or chat that returns its response writes exactly one
\* file, a new one, and appends it to the tracked list; one that fails in gTTS
\* writes none; and no step takes a file out of the directory or off the list
\* but delete_audio for that file, cleanup_audio, and the delayed task of a
\* file that get_audio has served.
C23_OneArtifactPerReply ==
    [][/\ trace'.op \in {"create_session", "chat"} =>
             IF response'.status = 200
             THEN \E f \in {response'.body.audio_url} :
                     /\ f \notin history.created
                     /\ f \notin files
                     /\ files' = files \cup {f}
                     /\ audio_files_to_cleanup' = Append(audio_files_to_cleanup, f)
             ELSE files' = files /\ audio_files_to_cleanup' = audio_files_to_cleanup
       /\ \A f \in files : f \notin files' => RemovedOnRequest(f)
       /\ \A f \in history.created :
             (InSeq(audio_files_to_cleanup, f) /\ ~InSeq(audio_files_to_cleanup', f))
             => RemovedOnRequest(f)]_vars

\* A reply has just been synthesized; the file of an earlier reply, which
\* nobody asked for, is still in the directory and on the list, while a file
\* that was served is gone.
C23_Witness ==
    /\ trace.op = "chat"
    /\ response.status = 200
    /\ \E f \in history.created :
          /\ f # response.body.audio_url
          /\ f \notin history.retrieved
          /\ f \in files
          /\ InSeq(audio_files_to_cleanup, f)
    /\ \E g \in history.retrieved : g \notin files /\ Removals(g) = 1

(***************************************************************************)
(* Unknown sessions (checked under StoreSpec)                              *)
(***************************************************************************)

\* C24: chat and get_session for an identifier that is not in the store
\* answer 404 and change nothing: the store, the directory of files, the
\* tracked list, the tasks and the transcripts are as before.
C24_UnknownSessionNotFound ==
    [][(/\ trace'.op \in {"chat", "get_session"}
        /\ trace'.session_id \notin DOMAIN sessions)
       => /\ response'.status = 404
          /\ response'.body = [detail |-> "Session not found"]
          /\ sessions' = sessions
          /\ files' = files
          /\ audio_files_to_cleanup' = audio_files_to_cleanup
          /\ tasks' = tasks
          /\ output' = output]_vars

\* A turn was sent to an identifier the store does not have, while it has
\* another session, which a turn had advanced: the answer is 404 and there is
\* still one session and one file per reply given.
C24_Witness ==
    /\ trace.op = "chat"
    /\ trace.session_id \notin DOMAIN sessions
    /\ response.status = 404
    /\ \E id \in DOMAIN sessions : sessions[id].state = "COLLECTING_EXPERIENCE"
    /\ Cardinality(DOMAIN sessions) = 1
    /\ Cardinality(files) = 2

(***************************************************************************)
(* Properties of the matcher (checked under MatcherSpec)                   *)
(***************************************************************************)

\* The matcher has answered.
Answered == response.op = "suggest_company_matches"

\* The entries of the list whose ratio to the name is the cutoff or more.
CloseEntries(directory, user_input) ==
    {i \in 1..Len(directory) :
        ~FracLess(Ratio(directory[i], user_input), << CutoffNum, CutoffDen >>)}

\* C25 (as claimed): the matcher returns five names at most, and for a name
\* that is an entry of the list it returns that entry and nothing else.
C25_ExactInputIsOnlyResult ==
    Answered =>
       /\ Len(response.body.matches) <= 5
       /\ InSeq(trace.directory, trace.input)
          => response.body.matches = << trace.input >>

\* C25, amended: the matcher returns five names at most: the entries of the
\* list whose ratio to the name is 0.4 or more, all of them if they are five
\* or fewer, in the order of falling ratio; for a name that is an entry of the
\* list that entry is the first result, and the other close entries follow it.
C25_AtMostFiveExactFirst ==
    Answered =>
       \E matches \in {response.body.matches} :
       \E close \in {CloseEntries(trace.directory, trace.input)} :
          /\ Len(matches) <= 5
          /\ Len(matches) = IF Cardinality(close) < 5 THEN Cardinality(close) ELSE 5
          /\ \A r \in 1..Len(matches) : \E i \in close : trace.directory[i] = matches[r]
          /\ \A r \in 1..Len(matches) : \A q \in 1..Len(matches) :
                r < q => /\ matches[r] # matches[q]
                         /\ ~FracLess(Ratio(matches[r], trace.input),
                                      Ratio(matches[q], trace.input))
          /\ InSeq(trace.directory, trace.input) => matches[1] = trace.input

\* The name is an entry of a list with more than five close entries: the
\* matcher returned five names, the entry first.
C25_Witness ==
    /\ Answered
    /\ InSeq(trace.directory, trace.input)
    /\ Cardinality(CloseEntries(trace.directory, trace.input)) > 5
    /\ Len(response.body.matches) = 5
    /\ response.body.matches[1] = trace.input

(***************************************************************************)
(* The conversation history (checked under Spec)                           *)
(***************************************************************************)

\* The entries of a history are the greeting, then the caller and the agent
\* in turn.
Alternates(h) ==
    /\ Len(h) >= 1
    /\ h[1] = [role |-> "assistant", content |-> Greeting]
    /\ \A i \in 1..Len(h) : h[i].role = IF i % 2 = 1 THEN "assistant" ELSE "user"

\* The history h with the caller's message of this step and an agent reply
\* after it.
WithTurn(h, reply) ==
    h \o << [role |-> "user", content |-> Text(Strip(trace'.input))],
            [role |-> "assistant", content |-> reply] >>

\* C26: the conversation history of a stored session only grows: every step
\* keeps the entries it has, in order; a turn that returns its response adds
\* the caller's message and the reply after it; and the history is the
\* greeting followed by caller and agent in turn.
C26_HistoryAppendOnly ==
    /\ [][\A id \in DOMAIN sessions :
             \E before \in {sessions[id].conversation_history} :
             \E after \in {sessions'[id].conversation_history} :
                /\ Len(after) >= Len(before)
                /\ SubSeq(after, 1, Len(before)) = before
                /\ (Turn(id) /\ response'.status = 200)
                   => after = WithTurn(before, response'.body.message)]_vars
    /\ [](\A id \in DOMAIN sessions : Alternates(sessions[id].conversation_history))

\* What the turns that return their response do: the history is kept and the
\* caller's message and the reply are added to it.
C26_AnsweredTurnsAppendBoth ==
    [][\A id \in DOMAIN sessions :
          Turn(id) =>
             \E before \in {sessions[id].conversation_history} :
             \E after \in {sessions'[id].conversation_history} :
                /\ SubSeq(after, 1, Len(before)) = before
                /\ response'.status = 200
                   => after = WithTurn(before, response'.body.message)]_vars

(***************************************************************************)
(* The first name (checked under EdgeSpec)                                 *)
(***************************************************************************)

\* The first whitespace-separated token of s: what stands between the first
\* character that is no space and the first space after it.
FirstToken(s) ==
    LET starts == {i \in 1..Len(s) : ~IsSpace(s[i])}
        i == CHOOSE x \in starts : \A y \in starts : x <= y
        stops == {j \in (i + 1)..(Len(s) + 1) : j = Len(s) + 1 \/ IsSpace(s[j])}
        j == CHOOSE x \in stops : \A y \in stops : x <= y
    IN  IF starts = {} THEN << >> ELSE SubSeq(s, i, j - 1)

\* C27: a session in any state other than GREETING holds a name and a first
\* name, and the first name is the first whitespace-separated token of the
\* name.
C27_FirstNameIsFirstToken ==
    \A id \in DOMAIN sessions :
       sessions[id].state # "GREETING"
       => \E ud \in {sessions[id].user_data} :
             /\ {"name", "first_name"} \subseteq DOMAIN ud
             /\ ud["first_name"] = FirstToken(ud["name"])

\* A caller who gave three words with two spaces between the first two has
\* completed the dialogue: the first name is the first word.
C27_Witness ==
    \E id \in DOMAIN sessions :
       /\ sessions[id].state = "COMPLETED"
       /\ "name" \in DOMAIN sessions[id].user_data
       /\ sessions[id].user_data["name"]
             = << "A", "n", "n", " ", " ", "L", "e", "e", " ", "J", "o", "n", "e", "s" >>
       /\ sessions[id].user_data["first_name"] = << "A", "n", "n" >>

(***************************************************************************)
(* The company recorded (checked under Spec)                               *)
(***************************************************************************)

\* The company recorded in a session, << >> if there is none.
CompanyOf(session) ==
    IF "company_name" \in DOMAIN session.user_data
    THEN session.user_data["company_name"] ELSE << >>

\* C28: the company recorded in a COMPLETED session is an entry of
\* company_list or the pending name the caller confirmed, and a name that is
\* no entry of company_list is recorded only by a turn in
\* CONFIRMING_UNKNOWN_COMPANY whose answer is affirmative.
C28_RecordedCompanyIsKnownOrConfirmed ==
    /\ [](\A id \in DOMAIN sessions :
             (sessions[id].state = "COMPLETED"
                 /\ "company_name" \in DOMAIN sessions[id].user_data)
             => \/ InCompanyList(sessions[id].user_data["company_name"])
                \/ /\ "pending_company_name" \in DOMAIN sessions[id].user_data
                   /\ sessions[id].user_data["company_name"]
                         = sessions[id].user_data["pending_company_name"])
    /\ [][\A id \in DOMAIN sessions :
             (/\ "company_name" \in DOMAIN sessions'[id].user_data
              /\ CompanyOf(sessions'[id]) # CompanyOf(sessions[id])
              /\ ~InCompanyList(CompanyOf(sessions'[id])))
             => /\ TurnIn(id, "CONFIRMING_UNKNOWN_COMPANY")
                /\ Lower(Strip(trace'.input)) \in ConfirmYes
                /\ CompanyOf(sessions'[id]) = sessions[id].user_data["pending_company_name"]]_vars

\* Both ways have been taken: a session is COMPLETED with a company that is
\* no entry of company_list, confirmed by the caller in the turn just made.
C28_Witness ==
    /\ trace.op = "chat"
    /\ trace.session_id \in DOMAIN sessions
    /\ \E session \in {sessions[trace.session_id]} :
          /\ session.state = "COMPLETED"
          /\ "company_name" \in DOMAIN session.user_data
          /\ ~InCompanyList(session.user_data["company_name"])
          /\ Lower(Strip(trace.input)) \in ConfirmYes
          /\ Len(session.conversation_history) >= 13

(***************************************************************************)
(* Beyond the third rejection (checked under Spec)                         *)
(***************************************************************************)

\* C29: the retry counter of a field has no upper limit: a rejected input in
\* a collection state whose counter is at 3 or more adds one to it again, the
\* turn calls chat_response and its reply, when it has one, is chat_response's
\* and not the validator's message; an accepted input then still advances the
\* state and puts the counter back to 0.
C29_CounterGrowsPastCeiling ==
    [][\A id \in DOMAIN sessions :
          \E state \in {sessions[id].state} :
             (Rejects(id) \/ Accepts(id)) /\ sessions[id].retry_counts[CounterOf(state)] >= 3
             => \E before \in {sessions[id].retry_counts[CounterOf(state)]} :
                \E after \in {sessions'[id]} :
                   IF Rejects(id)
                   THEN /\ after.retry_counts[CounterOf(state)] = before + 1
                        /\ after.state = state
                        /\ trace'.llm # "no"
                        /\ trace'.reply # VerdictIn(state, Strip(trace'.input)).error_msg
                        /\ response'.status = 200
                           => /\ response'.body.message = GeneratedReply
                              /\ after.conversation_history[Len(after.conversation_history)]
                                    = [role |-> "assistant", content |-> GeneratedReply]
                   ELSE /\ after.retry_counts[CounterOf(state)] = 0
                        /\ after.state # state]_vars

\* The fifth name in a row was rejected: the counter is at 5 and the reply is
\* chat_response's.
C29_Witness ==
    /\ trace.op = "chat"
    /\ trace.session_id \in DOMAIN sessions
    /\ sessions[trace.session_id].state = "GREETING"
    /\ sessions[trace.session_id].retry_counts.name = 5
    /\ response.status = 200
    /\ response.body.message = GeneratedReply

(***************************************************************************)
(* The employment record (checked under Spec)                              *)
(***************************************************************************)

\* C30: a session in VERIFYING_EMPLOYMENT holds an email that has a record in
\* users, and that record; an accepted email, stored stripped and lower-cased,
\* leads to VERIFYING_EMPLOYMENT if users has a record for it and to
\* ASKING_COMPANY if not, with the email retry counter at 0 either way.
C30_VerifyingOnlyWithRecord ==
    /\ [](\A id \in DOMAIN sessions :
             sessions[id].state = "VERIFYING_EMPLOYMENT"
             => \E ud \in {sessions[id].user_data} :
                   /\ {"email", "employment_record"} \subseteq DOMAIN ud
                   /\ ud["email"] \in DOMAIN users
                   /\ ud["employment_record"] = users[ud["email"]])
    /\ [][\A id \in DOMAIN sessions :
             (TurnIn(id, "COLLECTING_EMAIL") /\ Accepts(id))
             => \E email \in {Lower(Strip(trace'.input))} : \E after \in {sessions'[id]} :
                   /\ after.user_data["email"] = email
                   /\ after.state = IF email \in DOMAIN users
                                    THEN "VERIFYING_EMPLOYMENT" ELSE "ASKING_COMPANY"
                   /\ after.retry_counts.email = 0]_vars

\* An address typed with capitals, after one that was rejected, has a record
\* under its lower-cased form: the session is in VERIFYING_EMPLOYMENT with the
\* email counter back at 0.
C30_Witness ==
    /\ trace.op = "chat"
    /\ trace.input = << "J", "o", "h", "n", "@", "A", "c", "m", "e", ".", "c", "o", "m" >>
    /\ trace.session_id \in DOMAIN sessions
    /\ \E session \in {sessions[trace.session_id]} :
          /\ session.state = "VERIFYING_EMPLOYMENT"
          /\ session.user_data["email"]
                = << "j", "o", "h", "n", "@", "a", "c", "m", "e", ".", "c", "o", "m" >>
          /\ session.retry_counts.email = 0
          /\ \E i \in 1..Len(session.conversation_history) :
                session.conversation_history[i]
                   = [role |-> "user", content |-> Text(<< "j", "a", "n", "e" >>)]

(***************************************************************************)
(* Creating a session that exists (checked under Spec)                     *)
(***************************************************************************)

\* C31: create_session on an identifier that is stored puts a fresh session
\* in the place of the stored one, however far that one had come: state
\* GREETING, no user data, the four retry counters at 0, verified false and a
\* history of the greeting only; no other session is touched.
C31_CreateReplacesStored ==
    [][\A id \in DOMAIN sessions :
          (trace'.op = "create_session" /\ trace'.session_id = id)
          => /\ DOMAIN sessions' = DOMAIN sessions
             /\ \A other \in DOMAIN sessions \ {id} : sessions'[other] = sessions[other]
             /\ \E after \in {sessions'[id]} :
                   /\ after.state = "GREETING"
                   /\ DOMAIN after.user_data = {}
                   /\ \A field \in {"name", "experience", "dob", "email"} :
                         after.retry_counts[field] = 0
                   /\ ~after.verified
                   /\ after.conversation_history
                         = << [role |-> "assistant", content |-> Greeting] >>]_vars

\* A session that had been completed, its transcript saved, has been created
\* again under the same identifier and is fresh.
C31_Witness ==
    /\ trace.op = "create_session"
    /\ trace.session_id \in DOMAIN sessions
    /\ trace.session_id \in DOMAIN output
    /\ history.creates = 2
    /\ sessions[trace.session_id].state = "GREETING"
    /\ Len(sessions[trace.session_id].conversation_history) = 1

=============================================================================
